---- MODULE Spec2Model ----
(***************************************************************************)
(* Theme lifecycle manager of the Better Portal extension: the popup's     *)
(* catalog fetcher, theme downloader, toggles and eviction, and the        *)
(* content script's theme applicator, over the extension's local store     *)
(* (browserAPI.storage.local).                                             *)
(*                                                                         *)
(* In downloadTheme, cleanupUnusedThemes, removeTheme and applyTheme every *)
(* await is a step boundary: a fetch settling, a store read being answered *)
(* and a store write being applied are separate actions, and whatever the  *)
(* source runs synchronously after one of them (promise continuations      *)
(* included) is part of the same action.  A write of `theme` by a click    *)
(* handler is applied with the handler.  fetchThemesList followed by the   *)
(* building of the list (createThemeList, createThemeToggles) is one       *)
(* action: a single store write, then reads.  The store's change           *)
(* notifications reach the content script through a queue.                 *)
(***************************************************************************)
EXTENDS Integers, Sequences, FiniteSets, TLC

(***************************************************************************)
(* Bounds of the model.                                                    *)
(***************************************************************************)
\* downloadTheme calls made in one behaviour of the downloader specification
MaxCalls == 2
\* refetch clicks in one behaviour
MaxRefetch == 1
\* largest value of the clock that stamps the Download Records
MaxClock == 9
\* writes of `theme` the open page is notified of in one behaviour
MaxChanges == 2
\* download button clicks in one behaviour of the round trip specification
MaxTrips == 1
\* files in the listing of a theme directory of the catalog specification
MaxFiles == 3

(***************************************************************************)
(* Compiled-in configuration.                                              *)
(***************************************************************************)
REQUIRED_THEME_FILES == <<"home", "assignments", "extras">>

Cats == {REQUIRED_THEME_FILES[i] : i \in 1..Len(REQUIRED_THEME_FILES)}

THEMES_BASE_PATH == "themes"

\* cssContent.trim().length < MinCssLength is rejected
MinCssLength == 10

\* cleanupUnusedThemes keeps this many themes besides the active one
KeepRecent == 2

(***************************************************************************)
(* Values.                                                                 *)
(***************************************************************************)
\* the value of `theme` when the key is not set (undefined in the source)
NoValue == "undefined"

\* A CSS text: `lead` white-space characters, then `core` characters from
\* the first to the last non-white-space one; `ver` tells contents apart.
Css(lead, core, ver) == [lead |-> lead, core |-> core, ver |-> ver]

\* the value of an asset key that is not set
NoCss == Css(0, 0, -1)

\* the value of `themes_config`: not set, or set to a catalog
NoConfig == [set |-> FALSE, value |-> << >>]

StoredConfig(config) == [set |-> TRUE, value |-> config]

\* cssContent.length
CssLength(css) == css.lead + css.core

\* cssContent.trim().length
TrimLength(css) == css.core

\* A file name is the sequence of its tokens, e.g.
\* <<"aa", "-theme-", "home", ".css">> for aa-theme-home.css.
ToLowerCase(tok) ==
    CASE tok = "HOME" -> "home"
      [] tok = "ASSIGNMENTS" -> "assignments"
      [] tok = "EXTRAS" -> "extras"
      [] OTHER -> tok

\* f.name.toLowerCase().includes(requiredFile)
NameIncludes(name, requiredFile) ==
    \E i \in 1..Len(name) : ToLowerCase(name[i]) = requiredFile

\* f.name.endsWith('.css')
NameEndsWithCss(name) == Len(name) > 0 /\ name[Len(name)] = ".css"

\* `${themeName}-theme-${fileType}.css`
ThemeFileName(themeName, fileType) == <<themeName, "-theme-", fileType, ".css">>

\* `${themeName}-${fileType}.css`, the naming of the packaged assets
PlainFileName(themeName, fileType) == <<themeName, "-", fileType, ".css">>

RemoteFile(name, css) == [name |-> name, css |-> css]

\* a theme directory of the remote repository with the three files named
\* `${t}-theme-${category}.css`
ThemeDir(t, ver) ==
    [name |-> t, type |-> "dir",
     files |-> << RemoteFile(ThemeFileName(t, "assignments"), Css(0, 12, ver)),
                  RemoteFile(ThemeFileName(t, "extras"), Css(0, 12, ver)),
                  RemoteFile(ThemeFileName(t, "home"), Css(1, 10, ver)) >>]

\* The remote repository of the downloader specification:
\*   aa  three well-formed files under the `-theme-` naming
\*   bb  a home file of 10 characters of which 9 remain after trimming, and
\*       an extras file named `${t}-${category}.css`
\*   a plain file, which is no theme directory
RemoteDownload ==
    << ThemeDir("aa", 1),
       [name |-> "bb", type |-> "dir",
        files |-> << RemoteFile(ThemeFileName("bb", "assignments"), Css(0, 12, 1)),
                     RemoteFile(PlainFileName("bb", "extras"), Css(0, 12, 1)),
                     RemoteFile(ThemeFileName("bb", "home"), Css(1, 9, 1)) >>],
       [name |-> "README.md", type |-> "file", files |-> << >>] >>

\* The remote repository of the eviction specification: four well-formed
\* themes.
RemoteEvict ==
    << ThemeDir("aa", 1), ThemeDir("bb", 1), ThemeDir("cc", 1), ThemeDir("dd", 1) >>

\* The remote repository with five well-formed themes.
RemoteFive ==
    << ThemeDir("aa", 1), ThemeDir("bb", 1), ThemeDir("cc", 1), ThemeDir("dd", 1),
       ThemeDir("ee", 1) >>

\* every theme id the model speaks of; "zz" is in no remote listing
ThemeIds == {"aa", "bb", "cc", "dd", "ee", "zz"}

VARIABLES
    remote,                 \* the remote repository's themes directory
    theme,                  \* store key `theme`
    assets,                 \* store keys `${themeId}-${fileType}`
    stamps,                 \* store keys `${themeId}_downloaded` (0: not set)
    themes_config,          \* store key `themes_config`
    themes_config_updated,  \* store key `themes_config_updated` (0: not set)
    clock,                  \* new Date()
    popup,                  \* position of the popup's DOMContentLoaded handler
    THEMES_CONFIG,          \* the popup's in-memory catalog
    DOWNLOADED_THEMES,      \* the popup's Set, in insertion order
    dom,                    \* the popup's theme list
    calls,                  \* the downloadTheme calls made so far
    cleanup,                \* the cleanupUnusedThemes call of this popup
    page,                   \* the portal page the content script runs in
    lastFetch,              \* the last fetchThemesList call and list building
    updated,                \* store keys `${themeId}-${pageType}_updated` (0: not set)
    last_themes_update,     \* store key `last_themes_update` (0: not set)
    refetch                 \* the fetchAllThemes run of the bulk refetch variant

\* the state of the bulk refetch variant
bulkVars == << updated, last_themes_update, refetch >>

vars == << page, lastFetch, remote, bulkVars, theme, assets, stamps, themes_config, themes_config_updated,
           clock, popup, THEMES_CONFIG, DOWNLOADED_THEMES, dom, calls, cleanup >>

storeVars == << theme, assets, stamps, themes_config, themes_config_updated,
               updated, last_themes_update >>

(***************************************************************************)
(* Sequence helpers.                                                       *)
(***************************************************************************)
SeqRange(s) == {s[i] : i \in 1..Len(s)}

\* Set.add: appended unless already a member
SetAdd(s, x) == IF x \in SeqRange(s) THEN s ELSE Append(s, x)

\* Set.delete
SetDelete(s, x) == SelectSeq(s, LAMBDA y : y # x)

\* Array.find: index of the first element satisfying P, 0 if none
RECURSIVE FindFrom(_, _, _)
FindFrom(s, P(_), i) ==
    IF i > Len(s) THEN 0
    ELSE IF P(s[i]) THEN i
    ELSE FindFrom(s, P, i + 1)

(***************************************************************************)
(* Remote Catalog Fetcher.                                                 *)
(***************************************************************************)
\* the first file whose lower-cased name includes requiredFile, of any type
FindCssFileAnyType(themeFiles, requiredFile) ==
    FindFrom(themeFiles, LAMBDA f : NameIncludes(f.name, requiredFile), 1)

\* themeFiles.find(f => f.name.toLowerCase().includes(requiredFile) &&
\*                      f.name.endsWith('.css'))
FindCssFile(themeFiles, requiredFile) ==
    FindFrom(themeFiles,
             LAMBDA f : NameIncludes(f.name, requiredFile) /\ NameEndsWithCss(f.name),
             1)

\* isValidTheme: every required file has a match
IsValidTheme(themeFiles) ==
    \A i \in 1..Len(REQUIRED_THEME_FILES) :
        FindCssFile(themeFiles, REQUIRED_THEME_FILES[i]) # 0

\* the entry themeConfigs[themeName]; the display name is left out, nothing
\* reads it but the list's label
ThemeConfigEntry(dir) ==
    [id |-> dir.name,
     files |-> [c \in Cats |-> dir.files[FindCssFile(dir.files, c)].name],
     path |-> <<THEMES_BASE_PATH, dir.name>>]

\* themeConfigs after the loop over the first n directories, in insertion
\* order of its keys
RECURSIVE ThemeConfigs(_, _)
ThemeConfigs(directories, n) ==
    IF n = 0 THEN << >>
    ELSE LET dir == directories[n]
             rest == ThemeConfigs(directories, n - 1)
         IN  IF dir.type = "dir" /\ IsValidTheme(dir.files)
             THEN Append(rest, ThemeConfigEntry(dir))
             ELSE rest

\* Object.keys(themesConfig)
ConfigKeys(config) == [i \in 1..Len(config) |-> config[i].id]

\* the lookup without its guard
HasConfigUnchecked(config, themeId) == TRUE

\* THEMES_CONFIG[themeId] is defined
HasConfig(config, themeId) == themeId \in SeqRange(ConfigKeys(config))

\* The requests of one fetchThemesList call: the listing of the themes
\* directory, then one listing per entry of type dir.  failAt = 0: the first
\* request fails; failAt = i: the listing of directories[i] fails;
\* failAt > Len: no request fails.
ListingFails(directories, failAt) ==
    \/ failAt = 0
    \/ /\ failAt \in 1..Len(directories)
       /\ directories[failAt].type = "dir"

\* What happens to one fetchThemesList call and the list building after it.
\* failAt: see ListingFails; setOk: the store write of the fetched catalog
\* is applied (it throws otherwise); getOk: the store read of the catch
\* block is answered (it throws otherwise); unread: the themes whose store
\* read in isThemeDownloaded throws.
Outcome(failAt, setOk, getOk, unread) ==
    [failAt |-> failAt, setOk |-> setOk, getOk |-> getOk, unread |-> unread]

\* the outcomes with a store whose reads are all answered
LoadOutcomes(directories) ==
    {Outcome(failAt, TRUE, TRUE, {}) : failAt \in 0..(Len(directories) + 1)}
        \cup {Outcome(Len(directories) + 1, FALSE, TRUE, {})}

\* the outcomes with a store of which one read may throw
FaultyLoadOutcomes(directories) ==
    LoadOutcomes(directories)
        \cup {Outcome(failAt, TRUE, FALSE, {}) : failAt \in {0, Len(directories)}}
        \cup {Outcome(Len(directories) + 1, FALSE, FALSE, {})}
        \cup {Outcome(failAt, TRUE, TRUE, {t}) :
                  failAt \in {0, Len(directories) + 1},
                  t \in {directories[i].name : i \in 1..Len(directories)}}

\* the try block of fetchThemesList throws: a request fails, a body is no
\* listing, or the store write throws
FetchFails(directories, o) == ListingFails(directories, o.failAt) \/ ~o.setOk

\* fetchThemesList raises to its caller: the store read of its catch block
\* throws
FetchRaises(directories, o) == FetchFails(directories, o) /\ ~o.getOk

\* a fetcher that carries over the cached entries the listing has dropped
FetchedConfigMerging(directories, failAt, setOk, cached) ==
    IF ListingFails(directories, failAt) \/ ~setOk
    THEN (IF cached.set THEN cached.value ELSE << >>)
    ELSE LET fresh == ThemeConfigs(directories, Len(directories))
         IN  fresh \o SelectSeq(cached.value,
                                LAMBDA e : e.id \notin SeqRange(ConfigKeys(fresh)))

\* the value fetchThemesList returns, if it returns
FetchedConfig(directories, failAt, setOk, cached) ==
    IF ListingFails(directories, failAt) \/ ~setOk
    THEN (IF cached.set THEN cached.value ELSE << >>)
    ELSE ThemeConfigs(directories, Len(directories))

\* the last fetchThemesList call: status "none" (no call yet), "returned" or
\* "raised"; failed: its try block threw; unread: the themes whose
\* isThemeDownloaded read threw while the list was built
NoFetch == [status |-> "none", failed |-> FALSE, unread |-> {}]

(***************************************************************************)
(* Asset Store readers.                                                    *)
(***************************************************************************)
\* keys.every(key => result[key] && result[key].length > 0)
isThemeDownloaded(store, themeId) ==
    \A i \in 1..Len(REQUIRED_THEME_FILES) :
        LET v == store[<<themeId, REQUIRED_THEME_FILES[i]>>]
        IN  v # NoCss /\ CssLength(v) > 0

NoAssets == [k \in ThemeIds \X Cats |-> NoCss]

NoStamps == [t \in ThemeIds |-> 0]

(***************************************************************************)
(* The popup's theme list.                                                 *)
(***************************************************************************)
\* DOWNLOADED_THEMES after the isThemeDownloaded checks of the first n keys
\* (a theme of `unread` is one whose read throws: isThemeDownloaded catches
\* and returns false)
RECURSIVE MarkDownloaded(_, _, _, _, _)
MarkDownloaded(downloaded, keys, n, store, unread) ==
    IF n = 0 THEN downloaded
    ELSE LET before == MarkDownloaded(downloaded, keys, n - 1, store, unread)
         IN  IF keys[n] \notin unread /\ isThemeDownloaded(store, keys[n])
             THEN SetAdd(before, keys[n])
             ELSE before

\* data.theme || 'default'
ActiveOr(stored) == IF stored = NoValue THEN "default" ELSE stored

\* the list createThemeList builds: a slider for each catalog theme of
\* DOWNLOADED_THEMES, a download button for each other catalog theme
ThemeListDom(config, downloaded, stored, gen) ==
    LET keys == SeqRange(ConfigKeys(config))
        kind == [t \in ThemeIds |->
                    IF t \notin keys THEN "none"
                    ELSE IF t \in SeqRange(downloaded) THEN "slider"
                    ELSE "button"]
    IN  [kind |-> kind,
         checked |-> {x \in {"default"} \cup {t \in ThemeIds : kind[t] = "slider"} :
                          x = ActiveOr(stored)},
         disabled |-> {},
         gen |-> gen]

NoDom == [kind |-> [t \in ThemeIds |-> "none"], checked |-> {}, disabled |-> {}, gen |-> 0]

\* The list createThemeToggles of the bulk refetch variant builds, after the
\* read of `theme` of setupToggleListeners: a toggle for the default theme
\* and for each catalog theme, the toggle of the stored theme checked.
ToggleListDom(config, stored, gen) ==
    LET keys == SeqRange(ConfigKeys(config))
    IN  [kind |-> [t \in ThemeIds |-> IF t \in keys THEN "toggle" ELSE "none"],
         checked |-> {x \in {"default"} \cup keys : x = ActiveOr(stored)},
         disabled |-> {},
         gen |-> gen]

\* a change listener that leaves the other toggles as they are
AfterChangeKeeping(checked, themeId) ==
    IF themeId \notin checked
    THEN [checked |-> checked \cup {themeId}, set |-> TRUE, theme |-> themeId]
    ELSE IF checked \ {themeId} = {}
    THEN [checked |-> {"default"}, set |-> TRUE, theme |-> "default"]
    ELSE [checked |-> checked \ {themeId}, set |-> FALSE, theme |-> NoValue]

\* The change listener of the toggle of themeId (setupToggleListeners),
\* run after the click has flipped the toggle: the toggles checked
\* afterwards, and the value written to `theme` if one is written.
AfterChange(checked, themeId) ==
    IF themeId \notin checked
    THEN [checked |-> {themeId}, set |-> TRUE, theme |-> themeId]
    ELSE IF checked \ {themeId} = {}
    THEN [checked |-> {"default"}, set |-> TRUE, theme |-> "default"]
    ELSE [checked |-> checked \ {themeId}, set |-> FALSE, theme |-> NoValue]

(***************************************************************************)
(* Remote asset fetch.                                                     *)
(***************************************************************************)
\* a URL builder that names the home file whatever the category
buildGitHubUrlOfHome(themeName, fileType) ==
    [path |-> <<"themes", themeName>>, file |-> ThemeFileName(themeName, "home")]

\* https://raw.githubusercontent.com/OWNER/REPO/BRANCH/themes/${themeName}/${fileName}
\* with fileName = `${themeName}-theme-${fileType}.css`
buildGitHubUrl(themeName, fileType) ==
    [path |-> <<"themes", themeName>>, file |-> ThemeFileName(themeName, fileType)]

\* buildGitHubUrl(themePath, fileName) of the bulk refetch variant:
\* .../BRANCH/${themePath}/${fileName}
buildGitHubUrlFromPath(themePath, fileName) ==
    [path |-> themePath, file |-> fileName]

\* the body of the remote's 404 answer, "404: Not Found"
NotFoundBody == Css(0, 14, 0)

NetworkError == [kind |-> "error", ok |-> FALSE, body |-> Css(0, 0, 0)]

NoResponse == [kind |-> "none", ok |-> FALSE, body |-> Css(0, 0, 0)]

\* what the remote answers to GET url
RemoteResponse(rem, url) ==
    LET d == FindFrom(rem,
                      LAMBDA e : e.type = "dir" /\ <<THEMES_BASE_PATH, e.name>> = url.path,
                      1)
        f == IF d = 0 THEN 0
             ELSE FindFrom(rem[d].files, LAMBDA x : x.name = url.file, 1)
    IN  IF f = 0
        THEN [kind |-> "http", ok |-> FALSE, body |-> NotFoundBody]
        ELSE [kind |-> "http", ok |-> TRUE, body |-> rem[d].files[f].css]

\* the ways fetch(url) can settle: rejected, or fulfilled with the answer
FetchOutcomes(rem, url) == {NetworkError, RemoteResponse(rem, url)}

(***************************************************************************)
(* Content script: the portal page and its theme applicator.               *)
(***************************************************************************)
\* window.location.href, as the set of the substrings it contains among
\* those getPageType looks for; a URL that contains student_courses contains
\* courses
Urls ==
    { {"student_dashboard"}, {"courses"}, {"student_documents"},
      {"exam_cities_and_hall_ticket"}, {"student_certificates"},
      {"student_courses", "courses"}, {"student_dashboard", "courses"}, {} }

\* url.includes(s)
UrlIncludes(url, s) == s \in url

\* a page classification that takes every page for a home page
getPageTypeOrHome(url) == "home"

\* getPageType(), NoValue for null
getPageType(url) ==
    IF UrlIncludes(url, "student_dashboard") THEN "home"
    ELSE IF UrlIncludes(url, "courses") THEN "assignments"
    ELSE IF \/ UrlIncludes(url, "student_documents")
            \/ UrlIncludes(url, "exam_cities_and_hall_ticket")
            \/ UrlIncludes(url, "student_certificates")
            \/ UrlIncludes(url, "student_courses")
    THEN "extras"
    ELSE NoValue

\* The files packaged with the extension: theme aa under the naming
\* `${t}-${category}.css`, theme bb under the naming of the repository.
Package ==
    << [name |-> "aa", type |-> "dir",
        files |-> << RemoteFile(PlainFileName("aa", "assignments"), Css(0, 12, 2)),
                     RemoteFile(PlainFileName("aa", "extras"), Css(0, 12, 2)),
                     RemoteFile(PlainFileName("aa", "home"), Css(1, 10, 2)) >>],
       ThemeDir("bb", 2) >>

\* a fallback URL under the naming of the repository
FallbackUrlThemeNamed(thm, pageType) ==
    [origin |-> "extension", path |-> <<"themes", thm>>,
     file |-> ThemeFileName(thm, pageType)]

\* browserAPI.runtime.getURL(`themes/${theme}/${theme}-${pageType}.css`)
FallbackUrl(thm, pageType) ==
    [origin |-> "extension", path |-> <<"themes", thm>>,
     file |-> PlainFileName(thm, pageType)]

\* a store change notification: whether it carries the key `theme`, and the
\* new value of `theme` if it does
OtherChange == [theme |-> FALSE, newValue |-> NoValue]

ThemeChange(newValue) == [theme |-> TRUE, newValue |-> newValue]

\* The page.  boot: "get" (the read of `theme` at page load is pending),
\* "timer" (the 100 ms timer runs), "done"; queue: the change notifications
\* not yet delivered to the listener; sent: the notifications with key
\* `theme` sent so far; applies: the applyTheme calls made so far;
\* styles: the style[data-theme-style] elements of the document, in order.
ClosedPage == [open |-> FALSE, url |-> {}, boot |-> "none", saved |-> NoValue,
               queue |-> << >>, sent |-> 0, applies |-> << >>, styles |-> << >>]

\* injectStyle(css, themeName), called by the applyTheme call i
injectStyle(pg, css, themeName, i) ==
    [pg EXCEPT !.styles = Append(@, [css |-> css, themeName |-> themeName, by |-> i])]

\* applyTheme(thm), from its call to its first await or return.  pc: "get"
\* (at the await of the store read), "fetch" (at the await of the fetch of
\* the packaged asset), "done"; removed: the style elements removed at the
\* start; key: the storage key read; fetched: the URLs fetched; injected:
\* whether the call has called injectStyle.
applyTheme(pg, thm, from) ==
    LET pageType == getPageType(pg.url)
        call == [theme |-> thm, from |-> from, pc |-> "done", read |-> FALSE,
                 key |-> <<thm, pageType>>, fetched |-> << >>,
                 injected |-> FALSE]
        started == IF thm = "default" \/ pageType = NoValue
                   THEN call
                   ELSE [call EXCEPT !.pc = "get", !.read = TRUE]
    IN  [pg EXCEPT !.styles = << >>, !.applies = Append(@, started)]

\* a listener that applies nothing
onChangedIgnoring(pg, changes) == pg

\* the storage.onChanged listener, called with changes
onChanged(pg, changes) ==
    IF changes.theme THEN applyTheme(pg, changes.newValue, "change") ELSE pg

\* the page after the store has sent it the notifications `changes`
Notified(pg, changes) ==
    IF ~pg.open THEN pg
    ELSE [pg EXCEPT !.queue = @ \o changes,
                    !.sent = @ + Len(SelectSeq(changes, LAMBDA n : n.theme))]

\* The store notifies the open page of the writes of a step: `others`, then
\* the new value of `theme` if the step changed it.
Notify(others) ==
    /\ (theme' # theme /\ page.open) => page.sent < MaxChanges
    /\ page' = Notified(page, others \o (IF theme' # theme
                                         THEN <<ThemeChange(theme')>> ELSE << >>))

\* the portal page at url is loaded and the content script issues its read
\* of `theme`
PageLoads(url) ==
    /\ ~page.open
    /\ page' = [ClosedPage EXCEPT !.open = TRUE, !.url = url, !.boot = "get"]
    /\ UNCHANGED << lastFetch, remote, bulkVars, theme, assets, stamps, themes_config,
                    themes_config_updated, clock, popup, THEMES_CONFIG,
                    DOWNLOADED_THEMES, dom, calls, cleanup >>

\* the read of `theme` at page load is answered and the timer is set
PageReadsTheme ==
    /\ page.boot = "get"
    /\ page' = [page EXCEPT !.boot = "timer", !.saved = theme]
    /\ UNCHANGED << lastFetch, remote, bulkVars, theme, assets, stamps, themes_config,
                    themes_config_updated, clock, popup, THEMES_CONFIG,
                    DOWNLOADED_THEMES, dom, calls, cleanup >>

\* the timer fires: applyTheme(data.theme || 'default')
PageTimerFires ==
    /\ page.boot = "timer"
    /\ page' = applyTheme([page EXCEPT !.boot = "done"], ActiveOr(page.saved), "load")
    /\ UNCHANGED << lastFetch, remote, bulkVars, theme, assets, stamps, themes_config,
                    themes_config_updated, clock, popup, THEMES_CONFIG,
                    DOWNLOADED_THEMES, dom, calls, cleanup >>

\* a listener that applies the theme read at page load on a change of any
\* other key
ChangeDeliveredApplying ==
    /\ page.queue # << >>
    /\ page' = IF Head(page.queue).theme
               THEN onChanged([page EXCEPT !.queue = Tail(@)], Head(page.queue))
               ELSE applyTheme([page EXCEPT !.queue = Tail(@)], ActiveOr(page.saved),
                               "change")
    /\ UNCHANGED << lastFetch, remote, bulkVars, theme, assets, stamps, themes_config,
                    themes_config_updated, clock, popup, THEMES_CONFIG,
                    DOWNLOADED_THEMES, dom, calls, cleanup >>

\* the oldest pending change notification is delivered to the listener
ChangeDelivered ==
    /\ page.queue # << >>
    /\ page' = onChanged([page EXCEPT !.queue = Tail(@)], Head(page.queue))
    /\ UNCHANGED << lastFetch, remote, bulkVars, theme, assets, stamps, themes_config,
                    themes_config_updated, clock, popup, THEMES_CONFIG,
                    DOWNLOADED_THEMES, dom, calls, cleanup >>

\* result[storageKey] is falsy
CacheMiss(store, key) ==
    IF key[1] \in ThemeIds THEN store[key] = NoCss \/ CssLength(store[key]) = 0
    ELSE TRUE

\* the store read of the applyTheme call i is answered (ok) or throws: on a
\* cache miss the packaged asset is fetched, otherwise the stored CSS is
\* injected
ApplyReadAnswered(i, ok) ==
    /\ page.applies[i].pc = "get"
    /\ LET call == page.applies[i]
       IN  page' =
             IF ~ok
             THEN [page EXCEPT !.applies[i].pc = "done"]
             ELSE IF CacheMiss(assets, call.key)
             THEN [page EXCEPT !.applies[i].pc = "fetch",
                               !.applies[i].fetched =
                                   Append(@, FallbackUrl(call.theme, call.key[2]))]
             ELSE injectStyle([page EXCEPT !.applies[i].pc = "done",
                                           !.applies[i].injected = TRUE],
                              assets[call.key], call.theme, i)
    /\ UNCHANGED << lastFetch, remote, bulkVars, theme, assets, stamps, themes_config,
                    themes_config_updated, clock, popup, THEMES_CONFIG,
                    DOWNLOADED_THEMES, dom, calls, cleanup >>

\* the fetch of the packaged asset of the applyTheme call i settles with
\* response; its text is injected if response.ok
ApplyFetchSettles(i, response) ==
    /\ page.applies[i].pc = "fetch"
    /\ response \in FetchOutcomes(Package, page.applies[i].fetched[1])
    /\ page' =
         IF response.kind = "http" /\ response.ok
         THEN injectStyle([page EXCEPT !.applies[i].pc = "done",
                                       !.applies[i].injected = TRUE],
                          response.body, page.applies[i].theme, i)
         ELSE [page EXCEPT !.applies[i].pc = "done"]
    /\ UNCHANGED << lastFetch, remote, bulkVars, theme, assets, stamps, themes_config,
                    themes_config_updated, clock, popup, THEMES_CONFIG,
                    DOWNLOADED_THEMES, dom, calls, cleanup >>

\* the page's URL changes without a reload (fragment or history navigation)
Navigate(url) ==
    /\ page.open
    /\ url # page.url
    /\ page' = [page EXCEPT !.url = url]
    /\ UNCHANGED << lastFetch, remote, bulkVars, theme, assets, stamps, themes_config,
                    themes_config_updated, clock, popup, THEMES_CONFIG,
                    DOWNLOADED_THEMES, dom, calls, cleanup >>

(***************************************************************************)
(* Theme Downloader.                                                       *)
(***************************************************************************)
\* the test on the length of the text as fetched
CssAcceptedUntrimmed(cssContent) ==
    CssLength(cssContent) # 0 /\ ~(CssLength(cssContent) < MinCssLength)

\* !(!cssContent || cssContent.trim().length < 10)
CssAccepted(cssContent) ==
    CssLength(cssContent) # 0 /\ ~(TrimLength(cssContent) < MinCssLength)

\* the then-callback of one fetch does not throw before its store write
ResponseAccepted(response) ==
    /\ response.kind = "http"
    /\ response.ok
    /\ CssAccepted(response.body)

\* Promise.all taken for Promise.any: fulfilled with the first fulfilment
PromiseAny(st) ==
    IF \E c \in Cats : st[c] = "done" THEN "fulfilled"
    ELSE IF \A c \in Cats : st[c] = "failed" THEN "rejected"
    ELSE "pending"

\* Promise.all over the per-category promises
PromiseAll(st) ==
    IF \E c \in Cats : st[c] = "failed" THEN "rejected"
    ELSE IF \A c \in Cats : st[c] = "done" THEN "fulfilled"
    ELSE "pending"

\* A downloadTheme call.  pc: "awaitAll" (at `await Promise.all`), "stamp"
\* (at the await of the timestamp write), "returned".  st[c], the promise of
\* category c: "none" (never created), "fetch" (fetch in flight), "set"
\* (store write in flight), "done" (fulfilled with true), "failed" (rejected).
\* at: the date the call wrote as Download Record (0: none).
NewCall(config, themeId, btn, gen) ==
    LET known == HasConfig(config, themeId)
    IN  [themeId |-> themeId,
         btn |-> btn,
         gen |-> gen,
         pc |-> IF known THEN "awaitAll" ELSE "returned",
         result |-> FALSE,
         st |-> [c \in Cats |-> IF known THEN "fetch" ELSE "none"],
         url |-> [c \in Cats |-> buildGitHubUrl(themeId, c)],
         resp |-> [c \in Cats |-> NoResponse],
         wrote |-> [c \in Cats |-> FALSE],
         stamped |-> FALSE,
         at |-> 0,
         added |-> FALSE]

\* the continuation with rejections swallowed: once every promise has
\* settled the timestamp is written
AfterSettleSwallowing(call) ==
    IF call.pc # "awaitAll" THEN call
    ELSE IF \A c \in Cats : call.st[c] \in {"done", "failed"}
    THEN [call EXCEPT !.pc = "stamp"]
    ELSE call

\* the continuation of downloadTheme after a category promise settled
AfterSettle(call) ==
    IF call.pc # "awaitAll" THEN call
    ELSE CASE PromiseAll(call.st) = "rejected" ->
                  [call EXCEPT !.pc = "returned", !.result = FALSE]
           [] PromiseAll(call.st) = "fulfilled" ->
                  [call EXCEPT !.pc = "stamp"]
           [] OTHER -> call

\* The download button's click handler after `await downloadTheme(themeId)`:
\* on success the button of the handler's list is replaced by a toggle, every
\* toggle of the document is unchecked, and the toggle the document has for
\* themeId, if any, is checked and the theme made active; on failure the
\* handler's button is enabled again.
ButtonDone(call, before, after) ==
    IF ~call.btn \/ before.pc = "returned" \/ after.pc # "returned"
    THEN UNCHANGED << dom, theme >>
    ELSE IF after.result
    THEN LET kind == IF call.gen = dom.gen
                     THEN [dom.kind EXCEPT ![call.themeId] = "slider"]
                     ELSE dom.kind
             found == kind[call.themeId] = "slider"
         IN  /\ dom' = [dom EXCEPT !.kind = kind,
                                   !.checked = IF found THEN {call.themeId} ELSE {},
                                   !.disabled = IF call.gen = dom.gen
                                                THEN @ \ {call.themeId} ELSE @]
             /\ theme' = IF found THEN call.themeId ELSE theme
    ELSE /\ dom' = [dom EXCEPT !.disabled = IF call.gen = dom.gen
                                             THEN @ \ {call.themeId} ELSE @]
         /\ theme' = theme

\* call has a fetch or a store write in flight
InFlight(call) ==
    \/ call.pc = "stamp"
    \/ \E c \in Cats : call.st[c] \in {"fetch", "set"}

\* downloadTheme(themeId) is called; overlap tells whether it may be called
\* while an earlier call has a fetch or a store write in flight
downloadTheme(themeId, max, overlap) ==
    /\ popup = "open"
    /\ Len(calls) < max
    /\ overlap \/ \A i \in 1..Len(calls) : ~InFlight(calls[i])
    /\ calls' = Append(calls, NewCall(THEMES_CONFIG, themeId, FALSE, dom.gen))
    /\ UNCHANGED << page, lastFetch, remote, bulkVars, theme, assets, stamps, themes_config,
                    themes_config_updated, clock, popup, THEMES_CONFIG,
                    DOWNLOADED_THEMES, dom, cleanup >>

\* the fetch of category c of call i settles with response
FetchSettles(i, c, response) ==
    /\ calls[i].st[c] = "fetch"
    /\ response \in FetchOutcomes(remote, calls[i].url[c])
    /\ LET got == [calls[i] EXCEPT !.resp[c] = response,
                                   !.st[c] = IF ResponseAccepted(response)
                                             THEN "set" ELSE "failed"]
           after == AfterSettle(got)
       IN  /\ calls' = [calls EXCEPT ![i] = after]
           /\ ButtonDone(calls[i], calls[i], after)
    /\ UNCHANGED << page, lastFetch, remote, bulkVars, assets, stamps, themes_config, themes_config_updated,
                    clock, popup, THEMES_CONFIG, DOWNLOADED_THEMES, cleanup >>

\* the content stored without its leading white space
AssetWrittenTrimmed(response) == Css(0, response.body.core, response.body.ver)

\* the value written under storageKey: cssContent, the text of the response
AssetWritten(response) == response.body

\* a store write that tags the text with the number of the call
AssetSetNumbered(i, c, ok) ==
    /\ calls[i].st[c] = "set"
    /\ LET wrote == [calls[i] EXCEPT !.st[c] = IF ok THEN "done" ELSE "failed",
                                     !.wrote[c] = ok]
           after == AfterSettle(wrote)
       IN  /\ calls' = [calls EXCEPT ![i] = after]
           /\ ButtonDone(calls[i], calls[i], after)
    /\ assets' = IF ok
                 THEN [assets EXCEPT ![<<calls[i].themeId, c>>] =
                          [AssetWritten(calls[i].resp[c]) EXCEPT !.ver = i]]
                 ELSE assets
    /\ UNCHANGED << lastFetch, remote, bulkVars, stamps, themes_config, themes_config_updated,
                    clock, popup, THEMES_CONFIG, DOWNLOADED_THEMES, cleanup >>
    /\ Notify(IF ok THEN <<OtherChange>> ELSE << >>)

\* browserAPI.storage.local.set({ [storageKey]: cssContent }) of category c
\* of call i is applied (ok) or throws
AssetSet(i, c, ok) ==
    /\ calls[i].st[c] = "set"
    /\ LET wrote == [calls[i] EXCEPT !.st[c] = IF ok THEN "done" ELSE "failed",
                                     !.wrote[c] = ok]
           after == AfterSettle(wrote)
       IN  /\ calls' = [calls EXCEPT ![i] = after]
           /\ ButtonDone(calls[i], calls[i], after)
    /\ assets' = IF ok
                 THEN [assets EXCEPT ![<<calls[i].themeId, c>>] = AssetWritten(calls[i].resp[c])]
                 ELSE assets
    /\ UNCHANGED << lastFetch, remote, bulkVars, stamps, themes_config, themes_config_updated,
                    clock, popup, THEMES_CONFIG, DOWNLOADED_THEMES, cleanup >>
    /\ Notify(IF ok THEN <<OtherChange>> ELSE << >>)

\* a downloadTheme that lets the error of the timestamp write reach its
\* caller
StampSetRaising(i, ok) ==
    /\ calls[i].pc = "stamp"
    /\ clock < MaxClock
    /\ LET after == [calls[i] EXCEPT !.pc = IF ok THEN "returned" ELSE "raised",
                                     !.result = ok,
                                     !.stamped = ok, !.added = ok,
                                     !.at = IF ok THEN clock ELSE 0]
       IN  /\ calls' = [calls EXCEPT ![i] = after]
           /\ ButtonDone(calls[i], calls[i], after)
    /\ stamps' = IF ok THEN [stamps EXCEPT ![calls[i].themeId] = clock] ELSE stamps
    /\ clock' = IF ok THEN clock + 1 ELSE clock
    /\ DOWNLOADED_THEMES' = IF ok THEN SetAdd(DOWNLOADED_THEMES, calls[i].themeId)
                            ELSE DOWNLOADED_THEMES
    /\ UNCHANGED << lastFetch, remote, bulkVars, assets, themes_config, themes_config_updated,
                    popup, THEMES_CONFIG, cleanup >>
    /\ Notify(IF ok THEN <<OtherChange>> ELSE << >>)

\* the write of `${themeId}_downloaded` of call i is applied (ok) or throws;
\* the call returns
StampSet(i, ok) ==
    /\ calls[i].pc = "stamp"
    /\ clock < MaxClock
    /\ LET after == [calls[i] EXCEPT !.pc = "returned", !.result = ok,
                                     !.stamped = ok, !.added = ok,
                                     !.at = IF ok THEN clock ELSE 0]
       IN  /\ calls' = [calls EXCEPT ![i] = after]
           /\ ButtonDone(calls[i], calls[i], after)
    /\ stamps' = IF ok THEN [stamps EXCEPT ![calls[i].themeId] = clock] ELSE stamps
    /\ clock' = IF ok THEN clock + 1 ELSE clock
    /\ DOWNLOADED_THEMES' = IF ok THEN SetAdd(DOWNLOADED_THEMES, calls[i].themeId)
                            ELSE DOWNLOADED_THEMES
    /\ UNCHANGED << lastFetch, remote, bulkVars, assets, themes_config, themes_config_updated,
                    popup, THEMES_CONFIG, cleanup >>
    /\ Notify(IF ok THEN <<OtherChange>> ELSE << >>)

(***************************************************************************)
(* Popup start and the handlers of its controls.                           *)
(***************************************************************************)
\* fetchThemesList then createThemeList, as both handlers of the popup run
\* them: the catalog is fetched (failAt, setOk: see FetchedConfig), persisted
\* on success, assigned to THEMES_CONFIG, and the list is rebuilt from it.
\* If fetchThemesList raises, the handler's catch block logs the error and
\* nothing else of its try block runs.
LoadThemes(o) ==
    LET failed == FetchFails(remote, o)
        config == FetchedConfig(remote, o.failAt, o.setOk, themes_config)
        downloaded == MarkDownloaded(DOWNLOADED_THEMES, ConfigKeys(config),
                                     Len(config), assets, o.unread)
    IN  /\ failed \/ clock < MaxClock
        /\ IF failed
           THEN UNCHANGED << themes_config, themes_config_updated, clock >>
           ELSE /\ themes_config' = StoredConfig(config)
                /\ themes_config_updated' = clock
                /\ clock' = clock + 1
        /\ IF FetchRaises(remote, o)
           THEN /\ UNCHANGED << THEMES_CONFIG, DOWNLOADED_THEMES, dom >>
                /\ lastFetch' = [status |-> "raised", failed |-> TRUE, unread |-> {}]
           ELSE /\ THEMES_CONFIG' = config
                /\ DOWNLOADED_THEMES' = downloaded
                /\ dom' = ThemeListDom(config, downloaded, theme, dom.gen + 1)
                /\ lastFetch' = [status |-> "returned", failed |-> failed,
                                 unread |-> o.unread \cap SeqRange(ConfigKeys(config))]

\* the timer of setTimeout(cleanupUnusedThemes, 2000) is set
Scheduled(cl) == [cl EXCEPT !.pc = "scheduled"]

\* the DOMContentLoaded handler: load the themes, schedule the cleanup
DOMContentLoaded(o) ==
    /\ popup = "closed"
    /\ LoadThemes(o)
    /\ popup' = "open"
    /\ cleanup' = IF FetchRaises(remote, o) THEN cleanup ELSE Scheduled(cleanup)
    /\ UNCHANGED << remote, bulkVars, theme, assets, stamps, calls >>
    /\ Notify(IF FetchFails(remote, o) THEN << >> ELSE <<OtherChange>>)

\* a refetch handler that schedules the cleanup again
RefetchClickScheduling(o) ==
    /\ popup = "open"
    /\ dom.gen <= MaxRefetch
    /\ LoadThemes(o)
    /\ cleanup' = Scheduled(cleanup)
    /\ UNCHANGED << remote, bulkVars, theme, assets, stamps, popup, calls >>
    /\ Notify(IF FetchFails(remote, o) THEN << >> ELSE <<OtherChange>>)

\* the refetch button's click handler: load the themes again
RefetchClick(o) ==
    /\ popup = "open"
    /\ dom.gen <= MaxRefetch
    /\ LoadThemes(o)
    /\ UNCHANGED << remote, bulkVars, theme, assets, stamps, popup, calls, cleanup >>
    /\ Notify(IF FetchFails(remote, o) THEN << >> ELSE <<OtherChange>>)

\* the click handler of the slider of themeId
SliderClick(themeId) ==
    /\ popup = "open"
    /\ dom.kind[themeId] = "slider"
    /\ themeId \notin dom.checked
    /\ dom' = [dom EXCEPT !.checked = {themeId}]
    /\ theme' = themeId
    /\ UNCHANGED << lastFetch, remote, bulkVars, assets, stamps, themes_config, themes_config_updated,
                    clock, popup, THEMES_CONFIG, DOWNLOADED_THEMES, calls, cleanup >>
    /\ Notify(<< >>)

\* the click handler of the default theme's slider
DefaultSliderClick ==
    /\ popup = "open"
    /\ "default" \notin dom.checked
    /\ dom' = [dom EXCEPT !.checked = {"default"}]
    /\ theme' = "default"
    /\ UNCHANGED << lastFetch, remote, bulkVars, assets, stamps, themes_config, themes_config_updated,
                    clock, popup, THEMES_CONFIG, DOWNLOADED_THEMES, calls, cleanup >>
    /\ Notify(<< >>)

\* The DOMContentLoaded handler of the bulk refetch variant: fetchThemesList,
\* then createThemeToggles with setupToggleListeners and its read of `theme`.
BulkDOMContentLoaded(o) ==
    LET failed == FetchFails(remote, o)
        config == FetchedConfig(remote, o.failAt, o.setOk, themes_config)
    IN  /\ popup = "closed"
        /\ o.getOk
        /\ failed \/ clock < MaxClock
        /\ IF failed
           THEN UNCHANGED << themes_config, themes_config_updated, clock >>
           ELSE /\ themes_config' = StoredConfig(config)
                /\ themes_config_updated' = clock
                /\ clock' = clock + 1
        /\ THEMES_CONFIG' = config
        /\ dom' = ToggleListDom(config, theme, dom.gen + 1)
        /\ lastFetch' = [status |-> "returned", failed |-> failed, unread |-> {}]
        /\ popup' = "bulk"
        /\ UNCHANGED << remote, bulkVars, theme, assets, stamps, DOWNLOADED_THEMES, calls,
                        cleanup >>
        /\ Notify(IF failed THEN << >> ELSE <<OtherChange>>)

\* the user clicks the toggle of themeId ("default" included) of the bulk
\* refetch variant: the toggle flips and its change listener runs
ToggleChange(themeId) ==
    /\ popup = "bulk"
    /\ IF themeId = "default" THEN TRUE ELSE dom.kind[themeId] = "toggle"
    /\ LET after == AfterChange(dom.checked, themeId)
       IN  /\ dom' = [dom EXCEPT !.checked = after.checked]
           /\ theme' = IF after.set THEN after.theme ELSE theme
    /\ UNCHANGED << lastFetch, remote, bulkVars, assets, stamps, themes_config, themes_config_updated,
                    clock, popup, THEMES_CONFIG, DOWNLOADED_THEMES, calls, cleanup >>
    /\ Notify(<< >>)

\* the click handler of the download button of themeId, up to its
\* `await downloadTheme(themeId)`
DownloadClick(themeId, max) ==
    /\ popup = "open"
    /\ dom.kind[themeId] = "button"
    /\ themeId \notin dom.disabled
    /\ Len(calls) < max
    /\ calls' = Append(calls, NewCall(THEMES_CONFIG, themeId, TRUE, dom.gen))
    /\ dom' = [dom EXCEPT !.disabled = @ \cup {themeId}]
    /\ UNCHANGED << page, lastFetch, remote, bulkVars, theme, assets, stamps, themes_config,
                    themes_config_updated, clock, popup, THEMES_CONFIG,
                    DOWNLOADED_THEMES, cleanup >>

(***************************************************************************)
(* Eviction Policy.                                                        *)
(***************************************************************************)
\* A cleanupUnusedThemes call.  pc: "idle" (no popup), "scheduled" (the
\* timer runs), "scan" (first loop, at the await of a timestamp read),
\* "rmRead" (in removeTheme(victim), at the await of the read of `theme`),
\* "rmApply" (in removeTheme(victim), at the await of the bulk remove),
\* "done".  idx is the position of the running loop in DOWNLOADED_THEMES,
\* info is downloadInfo as the sequence of its entries in insertion order,
\* threw tells whether cleanupUnusedThemes or one of its removeTheme calls
\* caught (and logged) an error, returned is what the last removeTheme call
\* returned.
NoCleanup == [pc |-> "idle", theme |-> NoValue, idx |-> 0, info |-> << >>,
              keep |-> {}, victim |-> NoValue, rmTheme |-> NoValue,
              threw |-> FALSE, returned |-> NoValue]

\* the catch block of cleanupUnusedThemes: the error is logged
CleanupCaught(cl) ==
    [cl EXCEPT !.pc = "done", !.threw = TRUE, !.victim = NoValue, !.rmTheme = NoValue]

\* Array.sort with (a, b) => downloadInfo[b] - downloadInfo[a]: newest
\* first, entries of equal date in their order of insertion
RECURSIVE SortNewestFirst(_)
SortNewestFirst(info) ==
    IF Len(info) = 0 THEN << >>
    ELSE LET first == FindFrom(info,
                               LAMBDA e : \A k \in 1..Len(info) : info[k].date <= e.date,
                               1)
         IN  <<info[first].themeId>> \o
             SortNewestFirst(SubSeq(info, 1, first - 1) \o
                             SubSeq(info, first + 1, Len(info)))

\* the active theme and the last KeepRecent other themes of sortedThemes
ThemesToKeepOldest(active, sortedThemes) ==
    LET others == SelectSeq(sortedThemes, LAMBDA t : t # active)
    IN  {active} \cup {others[k] : k \in (IF Len(others) < KeepRecent THEN 1
                                          ELSE Len(others) - KeepRecent + 1)
                                         ..Len(others)}

\* themesToKeep: the active theme and the first KeepRecent other themes of
\* sortedThemes
ThemesToKeep(active, sortedThemes) ==
    LET others == SelectSeq(sortedThemes, LAMBDA t : t # active)
    IN  {active} \cup {others[k] : k \in 1..(IF Len(others) < KeepRecent
                                           THEN Len(others) ELSE KeepRecent)}

\* the second loop from position idx of DOWNLOADED_THEMES on: themes to keep
\* are passed over, removeTheme is called for the first other theme
SweepFrom(cl, downloaded, idx) ==
    LET j == FindFrom(downloaded, LAMBDA t : t \notin cl.keep, idx)
    IN  IF j = 0
        THEN [cl EXCEPT !.pc = "done", !.idx = Len(downloaded) + 1,
                        !.victim = NoValue, !.rmTheme = NoValue]
        ELSE [cl EXCEPT !.pc = "rmRead", !.idx = j, !.victim = downloaded[j],
                        !.rmTheme = NoValue]

\* the first loop at position cl.idx: await the next timestamp read, or,
\* past the end, sort, choose the themes to keep and enter the second loop
ScanFrom(cl, downloaded) ==
    IF cl.idx <= Len(downloaded)
    THEN [cl EXCEPT !.pc = "scan"]
    ELSE SweepFrom([cl EXCEPT !.keep = ThemesToKeep(cl.theme, SortNewestFirst(cl.info))],
                   downloaded, 1)

\* the timer fires: cleanupUnusedThemes reads `theme` (the read is answered,
\* ok, or throws) and enters its first loop
cleanupUnusedThemes(ok) ==
    /\ cleanup.pc = "scheduled"
    /\ cleanup' = IF ok
                  THEN ScanFrom([cleanup EXCEPT !.theme = theme, !.idx = 1],
                                DOWNLOADED_THEMES)
                  ELSE CleanupCaught(cleanup)
    /\ UNCHANGED << page, lastFetch, remote, bulkVars, theme, assets, stamps, themes_config,
                    themes_config_updated, clock, popup, THEMES_CONFIG,
                    DOWNLOADED_THEMES, dom, calls >>

\* a first loop that records a theme without a Download Record at date 0
CleanupReadsStampUnrecorded(ok) ==
    /\ cleanup.pc = "scan"
    /\ LET themeId == DOWNLOADED_THEMES[cleanup.idx]
           info == Append(cleanup.info,
                          [themeId |-> themeId, date |-> stamps[themeId]])
       IN  cleanup' = IF ok
                      THEN ScanFrom([cleanup EXCEPT !.info = info, !.idx = @ + 1],
                                    DOWNLOADED_THEMES)
                      ELSE CleanupCaught(cleanup)
    /\ UNCHANGED << page, lastFetch, remote, bulkVars, theme, assets, stamps, themes_config,
                    themes_config_updated, clock, popup, THEMES_CONFIG,
                    DOWNLOADED_THEMES, dom, calls >>

\* the read of `${themeId}_downloaded` of the first loop is answered (ok)
\* or throws
CleanupReadsStamp(ok) ==
    /\ cleanup.pc = "scan"
    /\ LET themeId == DOWNLOADED_THEMES[cleanup.idx]
           info == IF stamps[themeId] # 0
                   THEN Append(cleanup.info,
                               [themeId |-> themeId, date |-> stamps[themeId]])
                   ELSE cleanup.info
       IN  cleanup' = IF ok
                      THEN ScanFrom([cleanup EXCEPT !.info = info, !.idx = @ + 1],
                                    DOWNLOADED_THEMES)
                      ELSE CleanupCaught(cleanup)
    /\ UNCHANGED << page, lastFetch, remote, bulkVars, theme, assets, stamps, themes_config,
                    themes_config_updated, clock, popup, THEMES_CONFIG,
                    DOWNLOADED_THEMES, dom, calls >>

\* removeTheme(victim): the store answers the read of `theme` (ok) or the
\* read throws; with the answer the active theme is not removed and for any
\* other theme the bulk remove is issued.  Handlers of the popup may run
\* before the answer reaches removeTheme, so their store writes may be
\* applied between this step and the remove.
removeThemeReads(ok) ==
    /\ cleanup.pc = "rmRead"
    /\ cleanup' = IF ~ok
                  THEN SweepFrom([cleanup EXCEPT !.threw = TRUE, !.returned = "false"],
                                 DOWNLOADED_THEMES, cleanup.idx + 1)
                  ELSE IF theme = cleanup.victim
                  THEN SweepFrom([cleanup EXCEPT !.returned = "false"],
                                 DOWNLOADED_THEMES, cleanup.idx + 1)
                  ELSE [cleanup EXCEPT !.pc = "rmApply", !.rmTheme = theme]
    /\ UNCHANGED << page, lastFetch, remote, bulkVars, theme, assets, stamps, themes_config,
                    themes_config_updated, clock, popup, THEMES_CONFIG,
                    DOWNLOADED_THEMES, dom, calls >>

\* a removeTheme that removes the home asset only
KeysToRemoveHomeOnly(themeId) == {<<themeId, "home">>}

\* the keys removeTheme removes
KeysToRemove(themeId) == {<<themeId, c>> : c \in Cats}

\* a removeTheme that lets the error of the bulk remove reach its caller
removeThemeAppliesRaising(ok) ==
    /\ cleanup.pc = "rmApply"
    /\ IF ok
       THEN /\ assets' = [k \in DOMAIN assets |->
                            IF k \in KeysToRemove(cleanup.victim) THEN NoCss
                            ELSE assets[k]]
            /\ stamps' = [stamps EXCEPT ![cleanup.victim] = 0]
            /\ DOWNLOADED_THEMES' = SetDelete(DOWNLOADED_THEMES, cleanup.victim)
            /\ cleanup' = SweepFrom([cleanup EXCEPT !.returned = "true"],
                                    DOWNLOADED_THEMES', cleanup.idx)
       ELSE /\ UNCHANGED << assets, stamps, DOWNLOADED_THEMES >>
            /\ cleanup' = CleanupCaught(cleanup)
    /\ UNCHANGED << lastFetch, remote, bulkVars, theme, themes_config, themes_config_updated,
                    clock, popup, THEMES_CONFIG, dom, calls >>
    /\ Notify(IF ok THEN <<OtherChange>> ELSE << >>)

\* removeTheme(victim): the bulk remove is applied (ok) or throws
removeThemeApplies(ok) ==
    /\ cleanup.pc = "rmApply"
    /\ IF ok
       THEN /\ assets' = [k \in DOMAIN assets |->
                            IF k \in KeysToRemove(cleanup.victim) THEN NoCss
                            ELSE assets[k]]
            /\ stamps' = [stamps EXCEPT ![cleanup.victim] = 0]
            /\ DOWNLOADED_THEMES' = SetDelete(DOWNLOADED_THEMES, cleanup.victim)
            /\ cleanup' = SweepFrom([cleanup EXCEPT !.returned = "true"],
                                    DOWNLOADED_THEMES', cleanup.idx)
       ELSE /\ UNCHANGED << assets, stamps, DOWNLOADED_THEMES >>
            /\ cleanup' = SweepFrom([cleanup EXCEPT !.threw = TRUE, !.returned = "false"],
                                    DOWNLOADED_THEMES, cleanup.idx + 1)
    /\ UNCHANGED << lastFetch, remote, bulkVars, theme, themes_config, themes_config_updated,
                    clock, popup, THEMES_CONFIG, dom, calls >>
    /\ Notify(IF ok THEN <<OtherChange>> ELSE << >>)

(***************************************************************************)
(* Bulk refetch variant: fetchAllThemes and fetchAndStoreCSS.              *)
(***************************************************************************)
NoUpdated == [k \in ThemeIds \X Cats |-> 0]

\* A fetchAllThemes run.  pc: "idle" (no run, or the run has ended),
\* "awaitAll" (at `await Promise.all`), "last" (at the await of the write of
\* last_themes_update), "timer" (the 3000 ms timer that resets the button
\* runs).  keys: the storage keys of the run; st[k], the fetchAndStoreCSS
\* call of key k: "none" (not called), "fetch" (at the await of the fetch),
\* "set" (at the await of the write of the asset), "mark" (at the await of
\* the write of `${k}_updated`), "true" or "false" (returned).  last: the
\* write of last_themes_update, "none" (not issued), "applied" or "threw".
\* disabled: the refetch button is disabled; runs: the runs started so far.
NoRefetch ==
    [pc |-> "idle", disabled |-> FALSE, runs |-> 0, keys |-> {},
     st |-> [k \in ThemeIds \X Cats |-> "none"],
     url |-> [k \in ThemeIds \X Cats |-> buildGitHubUrlFromPath(<< >>, << >>)],
     resp |-> [k \in ThemeIds \X Cats |-> NoResponse],
     failedFetches |-> 0, last |-> "none"]

\* a fetchAllThemes that takes no account of the failed fetches
AfterAllSettledIgnoringFailures(rf) ==
    IF rf.pc = "awaitAll" /\ \A k \in rf.keys : rf.st[k] \in {"true", "false"}
    THEN [rf EXCEPT !.pc = "last"]
    ELSE rf

\* the continuation of fetchAllThemes after `await Promise.all`, whose
\* promises never reject: with no failed fetch the write of
\* last_themes_update is issued, otherwise the timer is set
AfterAllSettled(rf) ==
    IF rf.pc = "awaitAll" /\ \A k \in rf.keys : rf.st[k] \in {"true", "false"}
    THEN IF rf.failedFetches = 0
         THEN [rf EXCEPT !.pc = "last"]
         ELSE [rf EXCEPT !.pc = "timer"]
    ELSE rf

\* fetchAndStoreCSS of key k returns success to the then-callback of
\* fetchAllThemes, which counts the failures
CssReturns(rf, k, success) ==
    AfterAllSettled([rf EXCEPT !.st[k] = IF success THEN "true" ELSE "false",
                               !.failedFetches = IF success THEN @ ELSE @ + 1])

\* the click on the refetch button: fetchAllThemes disables the button and
\* calls fetchAndStoreCSS for every file of every theme of THEMES_CONFIG, up
\* to `await Promise.all`
fetchAllThemes ==
    /\ popup = "bulk"
    /\ ~refetch.disabled
    /\ refetch.runs < MaxRefetch
    /\ clock < MaxClock
    /\ LET entries == 1..Len(THEMES_CONFIG)
           keys == {<<THEMES_CONFIG[n].id, c>> : n \in entries, c \in Cats}
           entry(t) == THEMES_CONFIG[CHOOSE n \in entries : THEMES_CONFIG[n].id = t]
       IN  refetch' =
             AfterAllSettled(
               [pc |-> "awaitAll", disabled |-> TRUE, runs |-> refetch.runs + 1,
                keys |-> keys,
                st |-> [k \in ThemeIds \X Cats |-> IF k \in keys THEN "fetch" ELSE "none"],
                url |-> [k \in ThemeIds \X Cats |->
                            IF k \in keys
                            THEN buildGitHubUrlFromPath(entry(k[1]).path,
                                                        entry(k[1]).files[k[2]])
                            ELSE buildGitHubUrlFromPath(<< >>, << >>)],
                resp |-> [k \in ThemeIds \X Cats |-> NoResponse],
                failedFetches |-> 0, last |-> "none"])
    /\ clock' = clock + 1
    /\ UNCHANGED << page, lastFetch, remote, updated, last_themes_update, theme, assets,
                    stamps, themes_config, themes_config_updated, popup,
                    THEMES_CONFIG, DOWNLOADED_THEMES, dom, calls, cleanup >>

\* the fetch of fetchAndStoreCSS of key k settles with response: the write
\* of the asset is issued if the response is accepted, the call returns
\* false otherwise
CssFetchSettles(k, response) ==
    /\ refetch.st[k] = "fetch"
    /\ response \in FetchOutcomes(remote, refetch.url[k])
    /\ LET got == [refetch EXCEPT !.resp[k] = response]
       IN  refetch' = IF ResponseAccepted(response)
                      THEN [got EXCEPT !.st[k] = "set"]
                      ELSE CssReturns(got, k, FALSE)
    /\ UNCHANGED << page, lastFetch, remote, updated, last_themes_update, theme, assets,
                    stamps, themes_config, themes_config_updated, clock, popup,
                    THEMES_CONFIG, DOWNLOADED_THEMES, dom, calls, cleanup >>

\* browserAPI.storage.local.set({ [storageKey]: cssContent }) of key k is
\* applied (ok), and the write of `${storageKey}_updated` is issued, or it
\* throws and the call returns false
CssSet(k, ok) ==
    /\ refetch.st[k] = "set"
    /\ refetch' = IF ok THEN [refetch EXCEPT !.st[k] = "mark"]
                  ELSE CssReturns(refetch, k, FALSE)
    /\ assets' = IF ok THEN [assets EXCEPT ![k] = AssetWritten(refetch.resp[k])]
                 ELSE assets
    /\ UNCHANGED << lastFetch, remote, updated, last_themes_update, theme, stamps,
                    themes_config, themes_config_updated, clock, popup,
                    THEMES_CONFIG, DOWNLOADED_THEMES, dom, calls, cleanup >>
    /\ Notify(IF ok THEN <<OtherChange>> ELSE << >>)

\* the write of `${storageKey}_updated` of key k is applied (ok) and the
\* call returns true, or it throws and the call returns false
CssUpdatedSet(k, ok) ==
    /\ refetch.st[k] = "mark"
    /\ refetch' = CssReturns(refetch, k, ok)
    /\ updated' = IF ok THEN [updated EXCEPT ![k] = clock] ELSE updated
    /\ UNCHANGED << lastFetch, remote, last_themes_update, theme, assets, stamps,
                    themes_config, themes_config_updated, clock, popup,
                    THEMES_CONFIG, DOWNLOADED_THEMES, dom, calls, cleanup >>
    /\ Notify(IF ok THEN <<OtherChange>> ELSE << >>)

\* the write of last_themes_update is applied (ok) or throws; either way
\* the timer that resets the button is set
LastUpdateSet(ok) ==
    /\ refetch.pc = "last"
    /\ refetch' = [refetch EXCEPT !.pc = "timer",
                                  !.last = IF ok THEN "applied" ELSE "threw"]
    /\ last_themes_update' = IF ok THEN clock ELSE last_themes_update
    /\ UNCHANGED << lastFetch, remote, updated, theme, assets, stamps, themes_config,
                    themes_config_updated, clock, popup, THEMES_CONFIG,
                    DOWNLOADED_THEMES, dom, calls, cleanup >>
    /\ Notify(IF ok THEN <<OtherChange>> ELSE << >>)

\* the timer fires: the refetch button is enabled again
RefetchTimerFires ==
    /\ refetch.pc = "timer"
    /\ refetch' = [refetch EXCEPT !.pc = "idle", !.disabled = FALSE]
    /\ UNCHANGED << page, lastFetch, remote, updated, last_themes_update, theme, assets,
                    stamps, themes_config, themes_config_updated, clock, popup,
                    THEMES_CONFIG, DOWNLOADED_THEMES, dom, calls, cleanup >>

(***************************************************************************)
(* Downloader specification: a fresh installation, the popup is opened and *)
(* downloadTheme is called up to MaxCalls times, for any theme id, each    *)
(* call once the fetches and store writes of the earlier calls (those a    *)
(* call leaves in flight when it returns included) have settled.           *)
(***************************************************************************)
\* the theme ids downloadTheme is called with: two of the catalog and one
\* that no catalog has
DownloadIds == {"aa", "bb", "zz"}

InitDownload ==
    /\ remote = RemoteDownload
    /\ theme = NoValue
    /\ assets = NoAssets
    /\ stamps = NoStamps
    /\ themes_config = NoConfig
    /\ themes_config_updated = 0
    /\ clock = 1
    /\ popup = "closed"
    /\ THEMES_CONFIG = << >>
    /\ DOWNLOADED_THEMES = << >>
    /\ dom = NoDom
    /\ calls = << >>
    /\ cleanup = NoCleanup
    /\ page = ClosedPage
    /\ lastFetch = NoFetch
    /\ updated = NoUpdated
    /\ last_themes_update = 0
    /\ refetch = NoRefetch

NextDownload ==
    \/ \E o \in LoadOutcomes(remote) : DOMContentLoaded(o)
    \/ \E themeId \in DownloadIds : downloadTheme(themeId, MaxCalls, FALSE)
    \/ \E i \in 1..Len(calls), c \in Cats :
           \E response \in FetchOutcomes(remote, calls[i].url[c]) :
               FetchSettles(i, c, response)
    \/ \E i \in 1..Len(calls), c \in Cats, ok \in BOOLEAN : AssetSet(i, c, ok)
    \/ \E i \in 1..Len(calls), ok \in BOOLEAN : StampSet(i, ok)

SpecDownload == InitDownload /\ [][NextDownload]_vars

(***************************************************************************)
(* Eviction specification: the popup is opened on a store that earlier     *)
(* popups have filled with completely downloaded themes, the user clicks   *)
(* sliders and the refetch button while the cleanup runs.                  *)
(***************************************************************************)
EvictThemes == {"aa", "bb", "cc", "dd"}

\* the catalog of the remote repository
RemoteConfig(rem) == ThemeConfigs(rem, Len(rem))

\* the assets a successful download of theme t stores
DownloadedAsset(rem, t, c) == RemoteResponse(rem, buildGitHubUrl(t, c)).body

\* Download Records of earlier downloads: in the order of the theme ids, or
\* in the opposite order
StampOrders ==
    { [t \in ThemeIds |-> CASE t = "aa" -> 1 [] t = "bb" -> 2
                            [] t = "cc" -> 3 [] t = "dd" -> 4 [] OTHER -> 0],
      [t \in ThemeIds |-> CASE t = "aa" -> 4 [] t = "bb" -> 3
                            [] t = "cc" -> 2 [] t = "dd" -> 1 [] OTHER -> 0] }

\* The themes of `stored` have all their assets; each has a Download Record
\* but `unstamped`, whose assets were stored without one (by a download
\* whose timestamp write threw, or by the bulk refetch variant, which writes
\* none); the active theme is the default or a stored theme.
InitEvict ==
    /\ remote = RemoteEvict
    /\ \E stored \in SUBSET EvictThemes, order \in StampOrders :
       \E unstamped \in stored \cup {NoValue} :
          /\ assets = [k \in ThemeIds \X Cats |->
                          IF k[1] \in stored
                          THEN DownloadedAsset(RemoteEvict, k[1], k[2])
                          ELSE NoCss]
          /\ stamps = [t \in ThemeIds |->
                          IF t \in stored /\ t # unstamped THEN order[t] ELSE 0]
          /\ theme \in {"default"} \cup stored
    /\ themes_config = StoredConfig(RemoteConfig(RemoteEvict))
    /\ themes_config_updated = 5
    /\ clock = 6
    /\ popup = "closed"
    /\ THEMES_CONFIG = << >>
    /\ DOWNLOADED_THEMES = << >>
    /\ dom = NoDom
    /\ calls = << >>
    /\ cleanup = NoCleanup
    /\ page = ClosedPage
    /\ lastFetch = NoFetch
    /\ updated = NoUpdated
    /\ last_themes_update = 0
    /\ refetch = NoRefetch

NextEvict ==
    \/ \E o \in LoadOutcomes(remote) : DOMContentLoaded(o)
    \/ \E o \in LoadOutcomes(remote) : RefetchClick(o)
    \/ \E themeId \in ThemeIds : SliderClick(themeId)
    \/ DefaultSliderClick
    \/ \E ok \in BOOLEAN : cleanupUnusedThemes(ok)
    \/ \E ok \in BOOLEAN : CleanupReadsStamp(ok)
    \/ \E ok \in BOOLEAN : removeThemeReads(ok)
    \/ \E ok \in BOOLEAN : removeThemeApplies(ok)

SpecEvict == InitEvict /\ [][NextEvict]_vars

(***************************************************************************)
(* Cleanup specifications: the popup is opened and its cleanup runs from   *)
(* the timer to its end with no click on the popup's controls.             *)
(***************************************************************************)
FiveThemes == {"aa", "bb", "cc", "dd", "ee"}

\* Download Records of earlier downloads of the five themes, in two orders
StampOrdersFive ==
    { [t \in ThemeIds |-> CASE t = "aa" -> 1 [] t = "bb" -> 2 [] t = "cc" -> 3
                            [] t = "dd" -> 4 [] t = "ee" -> 5 [] OTHER -> 0],
      [t \in ThemeIds |-> CASE t = "aa" -> 3 [] t = "bb" -> 5 [] t = "cc" -> 1
                            [] t = "dd" -> 4 [] t = "ee" -> 2 [] OTHER -> 0] }

\* The store earlier popups left: the themes of `stored` have all their
\* assets but `partial`, which has its home asset only (a download of which
\* a category failed); each has a Download Record but `partial` and
\* `unstamped`; the active theme is the default or a completely stored theme.
StoreLeft(rem, stored, partial, unstamped, order) ==
    /\ assets = [k \in ThemeIds \X Cats |->
                    IF k[1] \in stored /\ (k[1] # partial \/ k[2] = "home")
                    THEN DownloadedAsset(RemoteFive, k[1], k[2])
                    ELSE NoCss]
    /\ stamps = [t \in ThemeIds |->
                    IF t \in stored /\ t # unstamped /\ t # partial
                    THEN order[t] ELSE 0]
    /\ theme \in {"default"} \cup (stored \ {partial})
    /\ remote = rem
    /\ themes_config = StoredConfig(RemoteConfig(RemoteFive))
    /\ themes_config_updated = 6
    /\ clock = 7
    /\ popup = "closed"
    /\ THEMES_CONFIG = << >>
    /\ DOWNLOADED_THEMES = << >>
    /\ dom = NoDom
    /\ calls = << >>
    /\ cleanup = NoCleanup
    /\ page = ClosedPage
    /\ lastFetch = NoFetch
    /\ updated = NoUpdated
    /\ last_themes_update = 0
    /\ refetch = NoRefetch

\* every stored theme is completely downloaded and listed by the remote
\* repository
InitCleanup ==
    \E stored \in SUBSET FiveThemes, order \in StampOrdersFive :
        \E unstamped \in stored \cup {NoValue} :
            StoreLeft(RemoteFive, stored, NoValue, unstamped, order)

NextCleanup ==
    \/ \E o \in LoadOutcomes(remote) : DOMContentLoaded(o)
    \/ \E ok \in BOOLEAN : cleanupUnusedThemes(ok)
    \/ \E ok \in BOOLEAN : CleanupReadsStamp(ok)
    \/ \E ok \in BOOLEAN : removeThemeReads(ok)
    \/ \E ok \in BOOLEAN : removeThemeApplies(ok)

SpecCleanup == InitCleanup /\ [][NextCleanup]_vars

\* Any store earlier popups can have left: one of the stored themes may be
\* partially stored, and the remote repository may have dropped theme ee
\* since the catalog was cached.
InitBound ==
    \E stored \in SUBSET FiveThemes, order \in StampOrdersFive :
        \E partial \in stored \cup {NoValue}, rem \in {RemoteFive, RemoteEvict} :
            StoreLeft(rem, stored, partial, NoValue, order)

SpecBound == InitBound /\ [][NextCleanup]_vars

(***************************************************************************)
(* Toggle specification: the popup of either variant is opened on a store  *)
(* earlier popups have filled, and the user clicks its toggles.            *)
(***************************************************************************)
ToggleThemes == {"aa", "bb", "cc"}

\* The active theme left by earlier popups is not set, the default, a
\* theme of the catalog, or a theme the catalog has dropped.
InitToggle ==
    /\ remote = RemoteEvict
    /\ \E stored \in SUBSET ToggleThemes, order \in StampOrders :
          /\ assets = [k \in ThemeIds \X Cats |->
                          IF k[1] \in stored
                          THEN DownloadedAsset(RemoteEvict, k[1], k[2])
                          ELSE NoCss]
          /\ stamps = [t \in ThemeIds |-> IF t \in stored THEN order[t] ELSE 0]
    /\ theme \in {NoValue, "default", "aa", "zz"}
    /\ themes_config = StoredConfig(RemoteConfig(RemoteEvict))
    /\ themes_config_updated = 5
    /\ clock = 6
    /\ popup = "closed"
    /\ THEMES_CONFIG = << >>
    /\ DOWNLOADED_THEMES = << >>
    /\ dom = NoDom
    /\ calls = << >>
    /\ cleanup = NoCleanup
    /\ page = ClosedPage
    /\ lastFetch = NoFetch
    /\ updated = NoUpdated
    /\ last_themes_update = 0
    /\ refetch = NoRefetch

NextToggle ==
    \/ \E o \in LoadOutcomes(remote) : DOMContentLoaded(o)
    \/ \E o \in LoadOutcomes(remote) : BulkDOMContentLoaded(o)
    \/ \E themeId \in ThemeIds : SliderClick(themeId)
    \/ DefaultSliderClick
    \/ \E themeId \in ThemeIds \cup {"default"} : ToggleChange(themeId)

SpecToggle == InitToggle /\ [][NextToggle]_vars

(***************************************************************************)
(* Page specification: a portal page is loaded on a store earlier popups   *)
(* have filled, the popup is opened and the user clicks its sliders while  *)
(* the content script applies the themes.                                  *)
(***************************************************************************)
\* the URLs the page is loaded at and navigates to: a home page and a page
\* getPageType does not know
PageUrls == { {"student_dashboard"}, {} }

\* the themes the user toggles
PageThemes == {"aa", "bb"}

\* bb is downloaded, aa is downloaded or not; the active theme left by
\* earlier popups is not set, aa, or cc, a theme no asset is stored of
InitPage ==
    /\ remote = RemoteEvict
    /\ \E stored \in {{"bb"}, {"aa", "bb"}} :
          /\ assets = [k \in ThemeIds \X Cats |->
                          IF k[1] \in stored
                          THEN DownloadedAsset(RemoteEvict, k[1], k[2])
                          ELSE NoCss]
          /\ stamps = [t \in ThemeIds |-> IF t \in stored THEN 1 ELSE 0]
    /\ theme \in {NoValue, "aa", "cc"}
    /\ themes_config = StoredConfig(RemoteConfig(RemoteEvict))
    /\ themes_config_updated = 5
    /\ clock = 6
    /\ popup = "closed"
    /\ THEMES_CONFIG = << >>
    /\ DOWNLOADED_THEMES = << >>
    /\ dom = NoDom
    /\ calls = << >>
    /\ cleanup = NoCleanup
    /\ page = ClosedPage
    /\ lastFetch = NoFetch
    /\ updated = NoUpdated
    /\ last_themes_update = 0
    /\ refetch = NoRefetch

NextPage ==
    \/ \E url \in PageUrls : PageLoads(url)
    \/ PageReadsTheme
    \/ PageTimerFires
    \/ ChangeDelivered
    \/ \E i \in 1..Len(page.applies), ok \in BOOLEAN : ApplyReadAnswered(i, ok)
    \/ \E i \in {j \in 1..Len(page.applies) : page.applies[j].pc = "fetch"} :
           \E response \in FetchOutcomes(Package, page.applies[i].fetched[1]) :
               ApplyFetchSettles(i, response)
    \/ \E url \in PageUrls : Navigate(url)
    \/ DOMContentLoaded(Outcome(0, TRUE, TRUE, {}))
    \/ \E themeId \in PageThemes : SliderClick(themeId)
    \/ DefaultSliderClick

SpecPage == InitPage /\ [][NextPage]_vars

(***************************************************************************)
(* Round trip specification: on a fresh installation a home page of the    *)
(* portal is loaded, the popup is opened and the user clicks the download  *)
(* button of theme aa; the content script applies what the download has    *)
(* stored (no applyTheme call misses the cache here).                      *)
(***************************************************************************)
NextRoundTrip ==
    \/ PageLoads({"student_dashboard"})
    \/ PageReadsTheme
    \/ PageTimerFires
    \/ ChangeDelivered
    \/ \E i \in 1..Len(page.applies), ok \in BOOLEAN : ApplyReadAnswered(i, ok)
    \/ DOMContentLoaded(Outcome(Len(remote) + 1, TRUE, TRUE, {}))
    \/ DownloadClick("aa", MaxTrips)
    \/ \E i \in 1..Len(calls), c \in Cats :
           \E response \in FetchOutcomes(remote, calls[i].url[c]) :
               FetchSettles(i, c, response)
    \/ \E i \in 1..Len(calls), c \in Cats, ok \in BOOLEAN : AssetSet(i, c, ok)
    \/ \E i \in 1..Len(calls), ok \in BOOLEAN : StampSet(i, ok)

SpecRoundTrip == InitDownload /\ [][NextRoundTrip]_vars

(***************************************************************************)
(* Catalog specification: on a fresh installation the popup is opened; the *)
(* remote repository has a plain file and the directory aa, which lists up *)
(* to MaxFiles files.                                                      *)
(***************************************************************************)
\* the names the files of the directory are drawn from: well-formed names,
\* a name in upper case, a name that is no .css file, a name with the tags
\* of two categories
FileNames ==
    { ThemeFileName("aa", "home"),
      <<"aa", "-", "HOME", ".css">>,
      <<"aa", "-theme-", "assignments", ".txt">>,
      ThemeFileName("aa", "assignments"),
      ThemeFileName("aa", "extras"),
      <<"home", "-", "extras", ".css">> }

\* the listings of n files
Listings(n) == [1..n -> {RemoteFile(name, Css(0, 12, 1)) : name \in FileNames}]

InitCatalog ==
    /\ \E n \in 0..MaxFiles : \E files \in Listings(n) :
          remote = << [name |-> "README.md", type |-> "file", files |-> << >>],
                      [name |-> "aa", type |-> "dir", files |-> files] >>
    /\ theme = NoValue
    /\ assets = NoAssets
    /\ stamps = NoStamps
    /\ themes_config = NoConfig
    /\ themes_config_updated = 0
    /\ clock = 1
    /\ popup = "closed"
    /\ THEMES_CONFIG = << >>
    /\ DOWNLOADED_THEMES = << >>
    /\ dom = NoDom
    /\ calls = << >>
    /\ cleanup = NoCleanup
    /\ page = ClosedPage
    /\ lastFetch = NoFetch
    /\ updated = NoUpdated
    /\ last_themes_update = 0
    /\ refetch = NoRefetch

NextCatalog ==
    \E o \in LoadOutcomes(remote) : DOMContentLoaded(o)

SpecCatalog == InitCatalog /\ [][NextCatalog]_vars

(***************************************************************************)
(* Refresh specification: the popup is opened and the refetch button       *)
(* clicked on a store that holds no catalog or the catalog of five themes, *)
(* while the remote repository lists two, four or five themes; a request   *)
(* may fail and a store access may throw.                                  *)
(***************************************************************************)
RefreshRemotes == {RemoteDownload, RemoteEvict, RemoteFive}

\* the catalog was cached at date 6, if ever
InitRefresh ==
    /\ remote \in RefreshRemotes
    /\ \E cached \in {NoConfig, StoredConfig(RemoteConfig(RemoteFive))} :
          /\ themes_config = cached
          /\ themes_config_updated = IF cached.set THEN 6 ELSE 0
          /\ clock = IF cached.set THEN 7 ELSE 1
    /\ \E stored \in SUBSET {"aa", "ee"} :
          /\ assets = [k \in ThemeIds \X Cats |->
                          IF k[1] \in stored
                          THEN DownloadedAsset(RemoteFive, k[1], k[2])
                          ELSE NoCss]
          /\ stamps = [t \in ThemeIds |-> IF t \in stored THEN 1 ELSE 0]
    /\ theme = NoValue
    /\ popup = "closed"
    /\ THEMES_CONFIG = << >>
    /\ DOWNLOADED_THEMES = << >>
    /\ dom = NoDom
    /\ calls = << >>
    /\ cleanup = NoCleanup
    /\ page = ClosedPage
    /\ lastFetch = NoFetch
    /\ updated = NoUpdated
    /\ last_themes_update = 0
    /\ refetch = NoRefetch

NextRefresh ==
    \/ \E o \in FaultyLoadOutcomes(remote) : DOMContentLoaded(o)
    \/ \E o \in FaultyLoadOutcomes(remote) : RefetchClick(o)

SpecRefresh == InitRefresh /\ [][NextRefresh]_vars

(***************************************************************************)
(* Overlap specification: on a fresh installation the popup is opened and  *)
(* downloadTheme(aa) is called up to MaxCalls times, a call possibly while *)
(* earlier calls have fetches and store writes in flight.  The remote      *)
(* repository answers every fetch; a store write may throw.                *)
(***************************************************************************)
NextOverlap ==
    \/ DOMContentLoaded(Outcome(Len(remote) + 1, TRUE, TRUE, {}))
    \/ downloadTheme("aa", MaxCalls, TRUE)
    \/ \E i \in 1..Len(calls), c \in Cats :
           FetchSettles(i, c, RemoteResponse(remote, calls[i].url[c]))
    \/ \E i \in 1..Len(calls), c \in Cats, ok \in BOOLEAN : AssetSet(i, c, ok)
    \/ \E i \in 1..Len(calls), ok \in BOOLEAN : StampSet(i, ok)

SpecOverlap == InitDownload /\ [][NextOverlap]_vars

(***************************************************************************)
(* Store fault specification: the popup is opened on a store that holds    *)
(* the themes bb to ee, the user clicks the download button of aa (at most *)
(* MaxTrips times) while the cleanup runs, and any store access of         *)
(* fetchThemesList,                                                        *)
(* isThemeDownloaded, downloadTheme, cleanupUnusedThemes and removeTheme   *)
(* may throw.  The remote repository answers every fetch.                  *)
(***************************************************************************)
InitFaults ==
    \E order \in {o \in StampOrdersFive : o["bb"] < o["cc"]} :
        /\ StoreLeft(RemoteFive, {"bb", "cc", "dd", "ee"}, NoValue, NoValue, order)
        /\ theme = "default"

NextFaults ==
    \/ \E o \in FaultyLoadOutcomes(remote) : DOMContentLoaded(o)
    \/ DownloadClick("aa", MaxTrips)
    \/ \E i \in 1..Len(calls), c \in Cats :
           FetchSettles(i, c, RemoteResponse(remote, calls[i].url[c]))
    \/ \E i \in 1..Len(calls), c \in Cats, ok \in BOOLEAN : AssetSet(i, c, ok)
    \/ \E i \in 1..Len(calls), ok \in BOOLEAN : StampSet(i, ok)
    \/ \E ok \in BOOLEAN : cleanupUnusedThemes(ok)
    \/ \E ok \in BOOLEAN : CleanupReadsStamp(ok)
    \/ \E ok \in BOOLEAN : removeThemeReads(ok)
    \/ \E ok \in BOOLEAN : removeThemeApplies(ok)

SpecFaults == InitFaults /\ [][NextFaults]_vars

(***************************************************************************)
(* Schedule specification: the popup is opened on a store that holds the   *)
(* themes bb, cc and dd; the user clicks the slider of bb, the refetch     *)
(* button and the download button of aa (at most MaxTrips times) while the *)
(* cleanup runs.  A store read of fetchThemesList, cleanupUnusedThemes or  *)
(* removeTheme may throw; the downloads meet no failure.                   *)
(***************************************************************************)
InitSchedule ==
    \E order \in {o \in StampOrdersFive : o["bb"] < o["cc"]} :
        /\ StoreLeft(RemoteEvict, {"bb", "cc", "dd"}, NoValue, NoValue, order)
        /\ theme = "default"

NextSchedule ==
    \/ \E o \in {x \in FaultyLoadOutcomes(remote) : x.unread = {}} : DOMContentLoaded(o)
    \/ RefetchClick(Outcome(Len(remote) + 1, TRUE, TRUE, {}))
    \/ SliderClick("bb")
    \/ DownloadClick("aa", MaxTrips)
    \/ \E i \in 1..Len(calls), c \in Cats :
           FetchSettles(i, c, RemoteResponse(remote, calls[i].url[c]))
    \/ \E i \in 1..Len(calls), c \in Cats : AssetSet(i, c, TRUE)
    \/ \E i \in 1..Len(calls) : StampSet(i, TRUE)
    \/ \E ok \in BOOLEAN : cleanupUnusedThemes(ok)
    \/ \E ok \in BOOLEAN : CleanupReadsStamp(ok)
    \/ \E ok \in BOOLEAN : removeThemeReads(ok)
    \/ \E ok \in BOOLEAN : removeThemeApplies(ok)

SpecSchedule == InitSchedule /\ [][NextSchedule]_vars

(***************************************************************************)
(* Removal specification: the popup is opened on a store that holds the    *)
(* themes bb, cc and dd; the user clicks the slider of bb and the download *)
(* button of aa (at most MaxTrips times) while the cleanup runs.  A store  *)
(* access of removeTheme or of the cleanup may throw; the catalog load and *)
(* the downloads meet no failure.                                          *)
(***************************************************************************)
NextRemove ==
    \/ DOMContentLoaded(Outcome(Len(remote) + 1, TRUE, TRUE, {}))
    \/ SliderClick("bb")
    \/ DownloadClick("aa", MaxTrips)
    \/ \E i \in 1..Len(calls), c \in Cats :
           FetchSettles(i, c, RemoteResponse(remote, calls[i].url[c]))
    \/ \E i \in 1..Len(calls), c \in Cats : AssetSet(i, c, TRUE)
    \/ \E i \in 1..Len(calls) : StampSet(i, TRUE)
    \/ \E ok \in BOOLEAN : cleanupUnusedThemes(ok)
    \/ \E ok \in BOOLEAN : CleanupReadsStamp(ok)
    \/ \E ok \in BOOLEAN : removeThemeReads(ok)
    \/ \E ok \in BOOLEAN : removeThemeApplies(ok)

SpecRemove == InitSchedule /\ [][NextRemove]_vars

(***************************************************************************)
(* Threshold specification: on a fresh installation the popup is opened    *)
(* and downloadTheme(aa) is called up to MaxTrips times, each call once    *)
(* the earlier ones have settled.  The remote home file of aa has a text   *)
(* of 0 to 11 characters after up to 3 white-space characters, its         *)
(* assignments file 10 characters after 2 white-space characters, and its  *)
(* extras file is at the URL downloadTheme builds or is not.               *)
(***************************************************************************)
\* the texts of the home file
HomeBodies == {Css(lead, core, 1) : lead \in {0, 1, 3}, core \in {0, 9, 10, 11}}

ThresholdRemote(home, extrasName) ==
    << [name |-> "aa", type |-> "dir",
        files |-> << RemoteFile(ThemeFileName("aa", "assignments"), Css(2, 10, 1)),
                     RemoteFile(extrasName, Css(0, 12, 1)),
                     RemoteFile(ThemeFileName("aa", "home"), home) >>] >>

InitThreshold ==
    /\ \E home \in HomeBodies :
       \E extrasName \in {ThemeFileName("aa", "extras"), PlainFileName("aa", "extras")} :
           remote = ThresholdRemote(home, extrasName)
    /\ theme = NoValue
    /\ assets = NoAssets
    /\ stamps = NoStamps
    /\ themes_config = NoConfig
    /\ themes_config_updated = 0
    /\ clock = 1
    /\ popup = "closed"
    /\ THEMES_CONFIG = << >>
    /\ DOWNLOADED_THEMES = << >>
    /\ dom = NoDom
    /\ calls = << >>
    /\ cleanup = NoCleanup
    /\ page = ClosedPage
    /\ lastFetch = NoFetch
    /\ updated = NoUpdated
    /\ last_themes_update = 0
    /\ refetch = NoRefetch

NextThreshold ==
    \/ DOMContentLoaded(Outcome(Len(remote) + 1, TRUE, TRUE, {}))
    \/ downloadTheme("aa", MaxTrips, FALSE)
    \/ \E i \in 1..Len(calls), c \in Cats :
           \E response \in FetchOutcomes(remote, calls[i].url[c]) :
               FetchSettles(i, c, response)
    \/ \E i \in 1..Len(calls), c \in Cats, ok \in BOOLEAN : AssetSet(i, c, ok)
    \/ \E i \in 1..Len(calls), ok \in BOOLEAN : StampSet(i, ok)

SpecThreshold == InitThreshold /\ [][NextThreshold]_vars

(***************************************************************************)
(* Race specification: the popup is opened on a store that holds the       *)
(* themes bb, cc and dd; the user clicks the download button of aa and the *)
(* refetch button (which builds the list, and a new download button of aa, *)
(* again) while the cleanup runs.  A request for a listing may fail; no    *)
(* fetch of an asset and no store access of a download or of the cleanup   *)
(* does.                                                                   *)
(***************************************************************************)
NextRace ==
    \/ \E o \in LoadOutcomes(remote) : DOMContentLoaded(o)
    \/ \E o \in LoadOutcomes(remote) : RefetchClick(o)
    \/ DownloadClick("aa", MaxCalls)
    \/ \E i \in 1..Len(calls), c \in Cats :
           FetchSettles(i, c, RemoteResponse(remote, calls[i].url[c]))
    \/ \E i \in 1..Len(calls), c \in Cats : AssetSet(i, c, TRUE)
    \/ \E i \in 1..Len(calls) : StampSet(i, TRUE)
    \/ cleanupUnusedThemes(TRUE)
    \/ CleanupReadsStamp(TRUE)
    \/ removeThemeReads(TRUE)
    \/ removeThemeApplies(TRUE)

SpecRace == InitSchedule /\ [][NextRace]_vars

(***************************************************************************)
(* Quiet page specification: the store holds the themes bb to ee and ee is *)
(* the active theme; a home page of the portal is loaded and, once its     *)
(* content script has made its first applyTheme call, the popup is opened: *)
(* the catalog is refreshed, the user clicks the download button of aa and *)
(* the cleanup runs, while the page's listener receives the store's change *)
(* notifications.  No fetch and no store access fails.                     *)
(***************************************************************************)
InitQuiet ==
    \E order \in {o \in StampOrdersFive : o["bb"] < o["cc"]} :
        /\ StoreLeft(RemoteFive, {"bb", "cc", "dd", "ee"}, NoValue, NoValue, order)
        /\ theme = "ee"

NextQuiet ==
    \/ PageLoads({"student_dashboard"})
    \/ PageReadsTheme
    \/ PageTimerFires
    \/ ChangeDelivered
    \/ \E i \in 1..Len(page.applies) : ApplyReadAnswered(i, TRUE)
    \/ page.boot = "done" /\ DOMContentLoaded(Outcome(Len(remote) + 1, TRUE, TRUE, {}))
    \/ DownloadClick("aa", MaxTrips)
    \/ \E i \in 1..Len(calls), c \in Cats :
           FetchSettles(i, c, RemoteResponse(remote, calls[i].url[c]))
    \/ \E i \in 1..Len(calls), c \in Cats : AssetSet(i, c, TRUE)
    \/ \E i \in 1..Len(calls) : StampSet(i, TRUE)
    \/ cleanupUnusedThemes(TRUE)
    \/ CleanupReadsStamp(TRUE)
    \/ removeThemeReads(TRUE)
    \/ removeThemeApplies(TRUE)

SpecQuiet == InitQuiet /\ [][NextQuiet]_vars

(***************************************************************************)
(* Termination specification: on a fresh installation the popup is opened  *)
(* and downloadTheme is called up to MaxTrips times, for any theme id,     *)
(* each call once the fetches and store writes of the earlier calls have   *)
(* settled.  Any fetch may be rejected and any store write may throw, and  *)
(* every fetch and every store write that a call has started settles in    *)
(* the end (the runtime delivers the outcome of each pending request and   *)
(* store call).                                                            *)
(***************************************************************************)
NextTerminate ==
    \/ \E o \in LoadOutcomes(remote) : DOMContentLoaded(o)
    \/ \E themeId \in DownloadIds : downloadTheme(themeId, MaxTrips, FALSE)
    \/ \E i \in 1..Len(calls), c \in Cats :
           \E response \in FetchOutcomes(remote, calls[i].url[c]) :
               FetchSettles(i, c, response)
    \/ \E i \in 1..Len(calls), c \in Cats, ok \in BOOLEAN : AssetSet(i, c, ok)
    \/ \E i \in 1..Len(calls), ok \in BOOLEAN : StampSet(i, ok)

\* a started fetch settles, a started store write is applied or throws
DownloadSettles ==
    /\ WF_vars(\E i \in 1..Len(calls), c \in Cats :
                   \E response \in FetchOutcomes(remote, calls[i].url[c]) :
                       FetchSettles(i, c, response))
    /\ WF_vars(\E i \in 1..Len(calls), c \in Cats, ok \in BOOLEAN : AssetSet(i, c, ok))
    /\ WF_vars(\E i \in 1..Len(calls), ok \in BOOLEAN : StampSet(i, ok))

SpecTerminate == InitDownload /\ [][NextTerminate]_vars /\ DownloadSettles

(***************************************************************************)
(* Bulk refetch specification: on a fresh installation the popup of the    *)
(* bulk refetch variant is opened and the refetch button is clicked up to  *)
(* MaxRefetch times.  The remote repository has the theme aa, whose home   *)
(* file has 10 or 9 characters after trimming; a request for a listing may *)
(* fail (the catalog is then empty), any fetch may be rejected and any     *)
(* store write may throw.  Every started fetch and store write settles in  *)
(* the end and a timer that was set fires.                                 *)
(***************************************************************************)
InitBulk ==
    /\ \E home \in {Css(1, 10, 1), Css(1, 9, 1)} :
           remote = ThresholdRemote(home, ThemeFileName("aa", "extras"))
    /\ theme = NoValue
    /\ assets = NoAssets
    /\ stamps = NoStamps
    /\ themes_config = NoConfig
    /\ themes_config_updated = 0
    /\ clock = 1
    /\ popup = "closed"
    /\ THEMES_CONFIG = << >>
    /\ DOWNLOADED_THEMES = << >>
    /\ dom = NoDom
    /\ calls = << >>
    /\ cleanup = NoCleanup
    /\ page = ClosedPage
    /\ lastFetch = NoFetch
    /\ updated = NoUpdated
    /\ last_themes_update = 0
    /\ refetch = NoRefetch

NextBulk ==
    \/ \E o \in LoadOutcomes(remote) : BulkDOMContentLoaded(o)
    \/ fetchAllThemes
    \/ \E k \in refetch.keys :
           \E response \in FetchOutcomes(remote, refetch.url[k]) :
               CssFetchSettles(k, response)
    \/ \E k \in refetch.keys, ok \in BOOLEAN : CssSet(k, ok)
    \/ \E k \in refetch.keys, ok \in BOOLEAN : CssUpdatedSet(k, ok)
    \/ \E ok \in BOOLEAN : LastUpdateSet(ok)
    \/ RefetchTimerFires

\* a started fetch settles, a started store write is applied or throws, the
\* timer fires
BulkSettles ==
    /\ WF_vars(\E k \in refetch.keys :
                   \E response \in FetchOutcomes(remote, refetch.url[k]) :
                       CssFetchSettles(k, response))
    /\ WF_vars(\E k \in refetch.keys, ok \in BOOLEAN : CssSet(k, ok))
    /\ WF_vars(\E k \in refetch.keys, ok \in BOOLEAN : CssUpdatedSet(k, ok))
    /\ WF_vars(\E ok \in BOOLEAN : LastUpdateSet(ok))
    /\ WF_vars(RefetchTimerFires)

SpecBulk == InitBulk /\ [][NextBulk]_vars /\ BulkSettles

(***************************************************************************)
(* Properties of the Theme Downloader.                                     *)
(***************************************************************************)
CallIds == 1..Len(calls)

CallsOf(themeId) == {i \in CallIds : calls[i].themeId = themeId}

\* every required category asset of themeId is stored, non-empty, and so is
\* its Download Record
AllKeysStored(themeId) ==
    /\ \A c \in Cats : /\ assets[<<themeId, c>>] # NoCss
                       /\ CssLength(assets[<<themeId, c>>]) > 0
    /\ stamps[themeId] # 0

\* no asset and no Download Record of themeId is stored
NoKeyStored(themeId) ==
    /\ \A c \in Cats : assets[<<themeId, c>>] = NoCss
    /\ stamps[themeId] = 0

\* a fetch that returned a success status with a body of at least 10
\* characters after trimming
FetchSucceeded(response) ==
    /\ response.kind = "http"
    /\ response.ok
    /\ response.body.lead + response.body.core > 0
    /\ response.body.core >= 10

\* C1: once the downloadTheme(T) calls made so far have returned, the store
\* holds all the keys of T (three non-empty assets and T_downloaded) or none.
C1_DownloadAllOrNothing ==
    \A t \in ThemeIds :
        (CallsOf(t) # {} /\ \A i \in CallsOf(t) : calls[i].pc = "returned")
            => (AllKeysStored(t) \/ NoKeyStored(t))

\* C2: isThemeDownloaded(T) is true only if some downloadTheme(T) call has
\* returned true (nothing removes a theme in this specification).
C2_DownloadedOnlyAfterSuccess ==
    \A t \in ThemeIds :
        isThemeDownloaded(assets, t)
            => \E i \in CallsOf(t) : calls[i].pc = "returned" /\ calls[i].result

\* C3: isThemeDownloaded(T) is true only while the key T_downloaded is set.
C3_DownloadedImpliesStamp ==
    \A t \in ThemeIds : isThemeDownloaded(assets, t) => stamps[t] # 0

\* C4: a downloadTheme call for a catalog theme returns true if and only if
\* every category fetch succeeded with a valid body and every store write of
\* the call succeeded; with any category failed it returns false.
C4_TrueIffAllSucceeded ==
    \A i \in CallIds :
        (calls[i].pc = "returned" /\ \A c \in Cats : calls[i].st[c] # "none")
            => /\ calls[i].result <=>
                    /\ \A c \in Cats : /\ FetchSucceeded(calls[i].resp[c])
                                       /\ calls[i].wrote[c]
                    /\ calls[i].stamped
               /\ (\E c \in Cats : calls[i].st[c] = "failed") => ~calls[i].result
               /\ calls[i].result => AllKeysStored(calls[i].themeId)

\* a call returned true and a call returned false after a failed category
C4_Witness ==
    /\ \E i \in CallIds : calls[i].pc = "returned" /\ calls[i].result
    /\ \E i \in CallIds : /\ calls[i].pc = "returned" /\ ~calls[i].result
                          /\ \E c \in Cats : calls[i].st[c] = "failed"

\* C5: when a downloadTheme call has returned, none of its category fetches
\* or asset writes is still in flight.
C5_SettledBeforeReturn ==
    \A i \in CallIds :
        calls[i].pc = "returned"
            => \A c \in Cats : calls[i].st[c] \notin {"fetch", "set"}

\* C6: T_downloaded is set, and T is in DOWNLOADED_THEMES, only when a call
\* of T had every category fetched successfully and its asset written; a call
\* with a failed category writes no timestamp and adds nothing to the set.
C6_StampAfterAllAssets ==
    /\ \A t \in ThemeIds :
           (stamps[t] # 0 \/ t \in SeqRange(DOWNLOADED_THEMES))
               => \E i \in CallsOf(t) :
                      /\ calls[i].stamped
                      /\ \A c \in Cats : /\ FetchSucceeded(calls[i].resp[c])
                                         /\ calls[i].wrote[c]
    /\ \A i \in CallIds :
           (\E c \in Cats : calls[i].st[c] = "failed")
               => ~calls[i].stamped /\ ~calls[i].added

\* one call of a theme wrote the timestamp, another call of the same theme
\* had a category fail
C6_Witness ==
    \E i, j \in CallIds :
        /\ calls[i].themeId = calls[j].themeId
        /\ calls[i].stamped
        /\ stamps[calls[i].themeId] # 0
        /\ \E c \in Cats : calls[j].st[c] = "failed"

\* themeId is a key of the in-memory catalog
InCatalog(themeId) ==
    \E k \in 1..Len(THEMES_CONFIG) : THEMES_CONFIG[k].id = themeId

\* C7: a downloadTheme call for a theme id that is not in the in-memory
\* catalog returns false at once, starts no fetch, and leaves the store and
\* DOWNLOADED_THEMES unchanged.
C7_UnknownThemeFailsAtOnce ==
    [][ (Len(calls') = Len(calls) + 1 /\ ~InCatalog(calls'[Len(calls')].themeId))
            => /\ calls'[Len(calls')].pc = "returned"
               /\ ~calls'[Len(calls')].result
               /\ \A c \in Cats : calls'[Len(calls')].st[c] = "none"
               /\ UNCHANGED storeVars
               /\ UNCHANGED DOWNLOADED_THEMES ]_vars

\* downloadTheme was called for a theme id absent from a non-empty catalog
C7_Witness ==
    /\ Len(THEMES_CONFIG) > 0
    /\ \E i \in CallIds : /\ ~InCatalog(calls[i].themeId)
                          /\ calls[i].pc = "returned"

\* C8: the URL fetched for category c of theme T is the remote path of T's
\* catalog entry plus the file name the catalog recorded for c.
C8_UrlFromCatalog ==
    \A i \in CallIds : \A k \in 1..Len(THEMES_CONFIG) : \A c \in Cats :
        (THEMES_CONFIG[k].id = calls[i].themeId /\ calls[i].st[c] # "none")
            => calls[i].url[c] =
                   buildGitHubUrlFromPath(THEMES_CONFIG[k].path,
                                          THEMES_CONFIG[k].files[c])

(***************************************************************************)
(* Properties of the Eviction Policy.                                      *)
(***************************************************************************)
\* the themes with all required assets in the store
DownloadedThemes == {t \in ThemeIds : isThemeDownloaded(assets, t)}

\* C9: no step removes an asset or the Download Record of the theme that is
\* the stored active theme when the step is taken.
C9_ActiveNeverEvicted ==
    [][ \A t \in ThemeIds :
            theme = t
                => /\ \A c \in Cats : assets[<<t, c>>] # NoCss
                                          => assets'[<<t, c>>] # NoCss
                   /\ stamps[t] # 0 => stamps'[t] # 0 ]_vars

\* C10: when cleanupUnusedThemes has completed without a store error, at
\* most 3 themes are downloaded (the active one and 2 retained), and the
\* active theme, which was downloaded before the eviction, still is.
C10_EvictionBound ==
    (cleanup.pc = "done" /\ ~cleanup.threw)
        => /\ Cardinality(DownloadedThemes) <= 3
           /\ theme \in EvictThemes => theme \in DownloadedThemes

\* the non-active downloaded themes that hold one of the n most recent
\* Download Records of the non-active downloaded themes
MostRecent(active, n) ==
    {t \in DownloadedThemes \ {active} :
        /\ stamps[t] # 0
        /\ Cardinality({u \in DownloadedThemes \ {active} : stamps[u] > stamps[t]}) < n}

AssetThemes == {t \in ThemeIds : \E c \in Cats : assets[<<t, c>>] # NoCss}

\* C12: when cleanupUnusedThemes has completed without a store error, Stored
\* Asset keys exist for at most 3 distinct theme ids, whatever downloads
\* (failed ones included) and catalog refreshes filled the store before.
C12_StorageBound ==
    (cleanup.pc = "done" /\ ~cleanup.threw) => Cardinality(AssetThemes) <= 3

C14_AtMostOneStyle == Len(page.styles) <= 1

ApplyIds == 1..Len(page.applies)

\* every applyTheme call has settled, no change notification is pending and
\* the apply of the page load has been made
PageSettled ==
    /\ page.open
    /\ page.boot = "done"
    /\ page.queue = << >>
    /\ \A i \in ApplyIds : page.applies[i].pc = "done"

\* C15: an applyTheme("default") call reads no asset, fetches nothing and
\* injects nothing, and the step that makes the call leaves no style
\* element; once every applyTheme call has settled while the stored active
\* theme is the default, the document has no style[data-theme-style]
\* element.
C15_DefaultUnstyled ==
    /\ \A i \in ApplyIds :
           page.applies[i].theme = "default"
               => /\ page.applies[i].pc = "done"
                  /\ ~page.applies[i].read
                  /\ page.applies[i].fetched = << >>
                  /\ ~page.applies[i].injected
    /\ (PageSettled /\ ActiveOr(theme) = "default") => page.styles = << >>

\* the change notifications with key `theme` among the pending ones
PendingThemeChanges == SelectSeq(page.queue, LAMBDA n : n.theme)

\* C16: the delivery of a change notification that carries the key `theme`
\* makes exactly one applyTheme call, with the new value; the applyTheme
\* calls made by the listener are as many as the notifications with key
\* `theme` delivered.
C16_OneApplyPerChange ==
    /\ [][ (page.queue # << >> /\ page'.queue = Tail(page.queue)
                /\ Head(page.queue).theme)
               => /\ Len(page'.applies) = Len(page.applies) + 1
                  /\ page'.applies[Len(page'.applies)].theme = Head(page.queue).newValue
                  /\ page'.applies[Len(page'.applies)].from = "change"
                  /\ SubSeq(page'.applies, 1, Len(page.applies)) = page.applies ]_vars
    /\ [](Cardinality({i \in ApplyIds : page.applies[i].from = "change"})
              + Len(PendingThemeChanges) = page.sent)

\* the listener has applied bb and then the default after two changes of
\* `theme`
C16_Witness ==
    /\ page.sent = 2
    /\ page.queue = << >>
    /\ \E i, j \in ApplyIds :
           /\ i < j
           /\ page.applies[i].from = "change" /\ page.applies[i].theme = "bb"
           /\ page.applies[j].from = "change" /\ page.applies[j].theme = "default"

\* the URL of the packaged asset of category c of theme t
PackagedUrl(t, c) ==
    [origin |-> "extension", path |-> <<"themes", t>>, file |-> <<t, "-", c, ".css">>]

\* the packaged file at url, if the package has it
PackagedHas(url) == RemoteResponse(Package, url).ok

\* C18: an applyTheme call whose store read finds the key absent fetches
\* the packaged asset themes/T/T-c.css, once, and nothing else; when the
\* fetch has settled the call has injected the text of the packaged file if
\* the response was successful, and has injected nothing otherwise.
C18_CacheMissFallback ==
    /\ [](\A i \in ApplyIds :
             /\ Len(page.applies[i].fetched) <= 1
             /\ page.applies[i].fetched # << >>
                    => page.applies[i].fetched[1]
                           = PackagedUrl(page.applies[i].theme, page.applies[i].key[2]))
    /\ [][ \A i \in ApplyIds :
               LET a == page.applies[i]
                   b == page'.applies[i]
               IN  /\ (a.pc = "get" /\ b.pc # "get" /\ assets[a.key] = NoCss)
                       => /\ page'.styles = page.styles
                          /\ ~b.injected
                          /\ b.pc = "fetch" \/ (b.pc = "done" /\ b.fetched = << >>)
                   /\ (a.pc = "fetch" /\ b.pc # "fetch")
                       => /\ b.pc = "done"
                          /\ b.fetched = a.fetched
                          /\ ~PackagedHas(a.fetched[1]) => ~b.injected
                          /\ IF b.injected
                             THEN page'.styles =
                                      Append(page.styles,
                                             [css |-> RemoteResponse(Package, a.fetched[1]).body,
                                              themeName |-> a.theme, by |-> i])
                             ELSE page'.styles = page.styles ]_vars

\* a call found its key absent, fetched the packaged asset and injected
\* its text, which is the only style element of the document
C18_Witness ==
    \E i \in ApplyIds :
        /\ page.applies[i].pc = "done"
        /\ page.applies[i].fetched = <<PackagedUrl("aa", "home")>>
        /\ page.applies[i].injected
        /\ page.styles = <<[css |-> Css(1, 10, 2), themeName |-> "aa", by |-> i]>>

\* a call found its key absent, fetched the packaged asset without success
\* and left the document without a style element
C18_WitnessFailed ==
    \E i \in ApplyIds :
        /\ page.applies[i].pc = "done"
        /\ page.applies[i].fetched # << >>
        /\ ~page.applies[i].injected
        /\ page.styles = << >>

\* the URL contains none of the substrings a recognised page has
Unrecognised(url) ==
    url \cap {"student_dashboard", "courses", "student_documents",
              "exam_cities_and_hall_ticket", "student_certificates",
              "student_courses"} = {}

\* C19: an applyTheme call for a theme other than the default made on a
\* page of no recognised category leaves no style element, reads nothing
\* from the store, fetches nothing and injects nothing.
C19_UnrecognisedUnstyled ==
    [][ (Len(page'.applies) = Len(page.applies) + 1
            /\ page'.applies[Len(page'.applies)].theme # "default"
            /\ Unrecognised(page.url))
           => /\ page'.styles = << >>
              /\ page'.applies[Len(page'.applies)].pc = "done"
              /\ ~page'.applies[Len(page'.applies)].read
              /\ page'.applies[Len(page'.applies)].fetched = << >>
              /\ ~page'.applies[Len(page'.applies)].injected
              /\ UNCHANGED storeVars ]_vars

\* on a page that navigated to a URL of no recognised category, a style was
\* injected by an earlier call and the last call, for a theme other than
\* the default, has returned without reading the store
C19_Witness ==
    /\ Unrecognised(page.url)
    /\ page.styles = << >>
    /\ \E i, j \in ApplyIds :
           /\ i < j
           /\ j = Len(page.applies)
           /\ page.applies[i].injected
           /\ page.applies[j].theme # "default"
           /\ page.applies[j].pc = "done"
           /\ ~page.applies[j].read

\* C17: a style element that an applyTheme(T) call injected from the store
\* on a page of category c has exactly the content that a downloadTheme(T)
\* call received for c and wrote under the key T-c.
C17_RoundTrip ==
    /\ [][ \A i \in ApplyIds :
               (page.applies[i].pc = "get" /\ page'.applies[i].injected)
                   => page'.styles =
                          Append(page.styles,
                                 [css |-> assets[page.applies[i].key],
                                  themeName |-> page.applies[i].theme, by |-> i]) ]_vars
    /\ [](\A n \in 1..Len(page.styles) :
             LET style == page.styles[n]
                 call == page.applies[style.by]
             IN  call.fetched = << >>
                     => \E k \in CallsOf(call.theme) :
                            /\ calls[k].wrote[call.key[2]]
                            /\ calls[k].resp[call.key[2]].kind = "http"
                            /\ style.css = calls[k].resp[call.key[2]].body)

\* the home asset of aa, which has leading white space, was downloaded and
\* is the content of the style element of the home page
C17_Witness ==
    /\ \E k \in CallsOf("aa") : calls[k].result
    /\ Len(page.styles) = 1
    /\ page.styles[1].css = Css(1, 10, 1)
    /\ page.styles[1].themeName = "aa"
    /\ page.applies[page.styles[1].by].fetched = << >>

(***************************************************************************)
(* Properties of the Remote Catalog Fetcher.                               *)
(***************************************************************************)
\* file is a file of category c: its lower-cased name contains the tag c
\* and its name ends in .css
FileOfCategory(file, c) ==
    /\ \E i \in 1..Len(file.name) : ToLowerCase(file.name[i]) = c
    /\ Len(file.name) > 0
    /\ file.name[Len(file.name)] = ".css"

\* C20: in the catalog a successful fetch returns, a directory of the
\* listing appears if and only if it lists a file of every required
\* category; its entry records for each category the first such file in
\* listing order; nothing else appears.
C20_CatalogIffAllCategories ==
    (popup = "open" /\ themes_config.set)
        => /\ \A d \in 1..Len(remote) :
                  remote[d].type = "dir"
                      => ((\E k \in 1..Len(THEMES_CONFIG) :
                               THEMES_CONFIG[k].id = remote[d].name)
                            <=> \A c \in Cats :
                                    \E f \in 1..Len(remote[d].files) :
                                        FileOfCategory(remote[d].files[f], c))
           /\ \A k \in 1..Len(THEMES_CONFIG) :
                  \E d \in 1..Len(remote) :
                      /\ remote[d].type = "dir"
                      /\ remote[d].name = THEMES_CONFIG[k].id
                      /\ \A c \in Cats :
                             \E f \in 1..Len(remote[d].files) :
                                 /\ FileOfCategory(remote[d].files[f], c)
                                 /\ \A g \in 1..(f - 1) :
                                        ~FileOfCategory(remote[d].files[g], c)
                                 /\ THEMES_CONFIG[k].files[c] = remote[d].files[f].name

\* the directory lists two files of category home and is in the catalog
\* with the one listed first
C20_Witness ==
    /\ popup = "open"
    /\ themes_config.set
    /\ Len(THEMES_CONFIG) = 1
    /\ remote[2].files[1].name = <<"home", "-", "extras", ".css">>
    /\ remote[2].files[2].name = ThemeFileName("aa", "home")
    /\ THEMES_CONFIG[1].files["home"] = <<"home", "-", "extras", ".css">>

\* the directory lists files of two categories only, the fetch succeeded
\* and the catalog is empty
C20_WitnessExcluded ==
    /\ popup = "open"
    /\ themes_config.set
    /\ THEMES_CONFIG = << >>
    /\ Len(remote[2].files) = 3
    /\ \E c \in Cats : \A f \in 1..3 : ~FileOfCategory(remote[2].files[f], c)
    /\ \E f \in 1..3 : FileOfCategory(remote[2].files[f], "home")

(***************************************************************************)
(* Properties of the Remote Catalog Fetcher under failures.                *)
(***************************************************************************)
\* this step is a run of a handler that calls fetchThemesList
LoadStep ==
    \/ popup = "closed" /\ popup' # "closed"
    \/ dom'.gen # dom.gen
    \/ lastFetch' # lastFetch

\* the catalog persisted under themes_config, the empty mapping if none
CachedCatalog == IF themes_config.set THEN themes_config.value ELSE << >>

\* C21: when a request or the parsing of a listing fails, fetchThemesList
\* does not raise, it returns the catalog persisted under themes_config (the
\* empty mapping if there is none) and it leaves themes_config and
\* themes_config_updated as they are.
C21_FailureReturnsCached ==
    [][(LoadStep /\ lastFetch'.failed) =>
           /\ lastFetch'.status = "returned"
           /\ THEMES_CONFIG' = CachedCatalog
           /\ UNCHANGED << themes_config, themes_config_updated >>]_vars

\* the themes of the listing that have a file of every required category
ValidThemes(directories) ==
    {directories[i].name : i \in {j \in 1..Len(directories) :
                                     /\ directories[j].type = "dir"
                                     /\ IsValidTheme(directories[j].files)}}

\* C22: a fetchThemesList call that succeeds writes the new catalog and
\* themes_config_updated in the same store write; the persisted catalog is
\* the returned one and its themes are exactly the valid themes of the
\* listing just fetched, entries of the catalog persisted before are not
\* carried over; themes_config is never set without themes_config_updated.
C22_SuccessPersistsFreshCatalog ==
    /\ [](themes_config.set <=> themes_config_updated # 0)
    /\ [][(LoadStep /\ ~lastFetch'.failed) =>
              /\ lastFetch'.status = "returned"
              /\ themes_config' = StoredConfig(THEMES_CONFIG')
              /\ themes_config_updated' = clock
              /\ SeqRange(ConfigKeys(THEMES_CONFIG')) = ValidThemes(remote)
              /\ Len(THEMES_CONFIG') = Cardinality(ValidThemes(remote))]_vars

\* a refresh has succeeded against the remote repository of four themes on
\* a store that held the catalog of five: ee is not in the new catalog
C22_Witness ==
    /\ lastFetch.status = "returned"
    /\ ~lastFetch.failed
    /\ remote = RemoteEvict
    /\ themes_config_updated >= 7
    /\ themes_config = StoredConfig(THEMES_CONFIG)
    /\ "ee" \notin SeqRange(ConfigKeys(themes_config.value))

(***************************************************************************)
(* Properties of the active theme when its assets are missing.             *)
(***************************************************************************)
\* no valid Stored Asset of themeId is in the store
NoValidAsset(themeId) ==
    \A c \in Cats : CacheMiss(assets, <<themeId, c>>)

\* C23: once an applyTheme call has found that the stored active theme has
\* no valid Stored Asset (its read missed the cache and the call has ended),
\* the stored `theme` is "default".
C23_MissingAssetsForceDefault ==
    \A i \in 1..Len(page.applies) :
        LET call == page.applies[i]
        IN  (/\ call.pc = "done"
             /\ call.fetched # << >>
             /\ call.theme = theme
             /\ NoValidAsset(call.theme))
            => theme = "default"

(***************************************************************************)
(* Properties of repeated downloads of one theme.                          *)
(***************************************************************************)
\* the text of the remote file of category c of theme t
RemoteCss(rem, t, c) ==
    LET dir == CHOOSE d \in SeqRange(rem) : d.type = "dir" /\ d.name = t
    IN  (CHOOSE f \in SeqRange(dir.files) : f.name = ThemeFileName(t, c)).css

\* the calls of themeId that have returned true
SucceededCalls(themeId) ==
    {i \in CallsOf(themeId) : calls[i].pc = "returned" /\ calls[i].result}

\* C24: when two downloadTheme calls of the same theme, run concurrently
\* against an unchanged remote repository, have both returned true, the
\* store holds for that theme what one successful download stores (the
\* remote text under each category key) and one Download Record, written by
\* one of the calls; no other theme has a key.
C24_ConcurrentDownloadsBenign ==
    \A t \in ThemeIds :
        Cardinality(SucceededCalls(t)) >= 2 =>
            /\ \A c \in Cats : assets[<<t, c>>] = RemoteCss(remote, t, c)
            /\ stamps[t] \in {calls[i].at : i \in SucceededCalls(t)}
            /\ \A u \in ThemeIds \ {t} : NoKeyStored(u)

\* two calls of aa have returned true, the first of them after the second:
\* they ran concurrently
C24_Witness ==
    /\ Len(calls) >= 2
    /\ {1, 2} \subseteq SucceededCalls("aa")
    /\ calls[1].at > calls[2].at
    /\ stamps["aa"] = calls[1].at

\* C25: downloadTheme is idempotent on an unchanged remote repository: once
\* a call of a theme has returned true, a later call of that theme leaves
\* the CSS text under each of the theme's category keys as it was (every
\* write of the later call stores the text already there); only the
\* Download Record may change.
C25_RedownloadKeepsContent ==
    [][\A t \in ThemeIds :
           SucceededCalls(t) # {} =>
               \A c \in Cats : assets'[<<t, c>>] = assets[<<t, c>>]]_vars

\* downloadTheme(aa) has been called twice in sequence, both calls returned
\* true and the second one wrote the Download Record last
C25_Witness ==
    /\ Len(calls) = 2
    /\ SucceededCalls("aa") = {1, 2}
    /\ \A c \in Cats : calls[2].wrote[c]
    /\ calls[1].at < calls[2].at
    /\ stamps["aa"] = calls[2].at

(***************************************************************************)
(* Properties of the store's failures.                                     *)
(***************************************************************************)
\* a store write of the downloadTheme call i threw: the write of a fetched
\* asset, or the write of the Download Record
WriteThrew(i) ==
    \/ \E c \in Cats : /\ calls[i].st[c] = "failed"
                        /\ FetchSucceeded(calls[i].resp[c])
                        /\ ~calls[i].wrote[c]
    \/ /\ calls[i].pc = "returned"
       /\ \A c \in Cats : calls[i].st[c] = "done"
       /\ ~calls[i].stamped

\* this step is a store access of removeTheme that throws
RemoveThrows == removeThemeReads(FALSE) \/ removeThemeApplies(FALSE)

\* C26: a store access that throws inside downloadTheme, isThemeDownloaded
\* or removeTheme is reported as the value false and is not retried:
\*  - a downloadTheme call one of whose store writes threw has returned
\*    false, and a write that threw is never issued again;
\*  - when the read of isThemeDownloaded(t) throws while the list is built,
\*    the list is built all the same with t taken as not downloaded (t is
\*    not added to DOWNLOADED_THEMES);
\*  - when the read or the bulk remove of removeTheme(t) throws, the call
\*    returns false with the store as it was and cleanupUnusedThemes goes
\*    on with the theme after t.
C26_StoreFailureIsFalse ==
    /\ [](\A i \in CallIds :
             WriteThrew(i) => calls[i].pc = "returned" /\ ~calls[i].result)
    /\ [][\A i \in CallIds, c \in Cats :
               calls[i].st[c] = "failed" => calls'[i].st[c] = "failed"]_vars
    /\ [][\A t \in ThemeIds :
               (LoadStep /\ t \in lastFetch'.unread) =>
                   /\ lastFetch'.status = "returned"
                   /\ dom'.gen = dom.gen + 1
                   /\ t \in SeqRange(DOWNLOADED_THEMES')
                          <=> t \in SeqRange(DOWNLOADED_THEMES)
                   /\ t \notin SeqRange(DOWNLOADED_THEMES) => dom'.kind[t] = "button"]_vars
    /\ [][RemoveThrows =>
               /\ cleanup'.returned = "false"
               /\ UNCHANGED << storeVars, DOWNLOADED_THEMES >>
               /\ cleanup'.pc \in {"rmRead", "done"}
               /\ cleanup'.idx > cleanup.idx
               /\ cleanup'.pc = "done" =>
                      \A k \in (cleanup.idx + 1)..Len(DOWNLOADED_THEMES) :
                          DOWNLOADED_THEMES[k] \in cleanup.keep]_vars

\* the read of isThemeDownloaded(bb) threw and the stored theme bb is listed
\* with a download button, a downloadTheme call has returned false because
\* a store write threw, and a removeTheme call has returned false because
\* a store access threw, leaving its theme in the store
C26_Witness ==
    /\ lastFetch.unread = {"bb"}
    /\ isThemeDownloaded(assets, "bb")
    /\ dom.kind["bb"] = "button"
    /\ \E i \in CallIds : WriteThrew(i) /\ ~calls[i].result
    /\ cleanup.pc = "done"
    /\ cleanup.threw
    /\ cleanup.returned = "false"
    /\ \E t \in SeqRange(DOWNLOADED_THEMES) : t \notin cleanup.keep

(***************************************************************************)
(* Properties of the scheduling of the eviction.                           *)
(***************************************************************************)
\* C27: cleanupUnusedThemes is scheduled once per popup opening and only by
\* the DOMContentLoaded handler, in the run in which the catalog has been
\* fetched and the theme list and DOWNLOADED_THEMES have been built; once
\* scheduled or run it is never scheduled again; a change of `theme`, a
\* step of a download and a refetch leave the cleanup as it is; an error
\* inside it is caught: the cleanup goes on or ends, and the popup is left
\* as it is.
C27_CleanupScheduledOnce ==
    /\ [][(cleanup'.pc = "scheduled" /\ cleanup.pc # "scheduled") =>
              /\ cleanup.pc = "idle"
              /\ popup = "closed" /\ popup' = "open"
              /\ lastFetch'.status = "returned"
              /\ dom' = ThemeListDom(THEMES_CONFIG', DOWNLOADED_THEMES', theme, 1)]_vars
    /\ [][cleanup.pc = "done" => cleanup' = cleanup]_vars
    /\ [][(\/ theme' # theme
           \/ calls' # calls
           \/ popup = "open" /\ LoadStep) => cleanup' = cleanup]_vars
    /\ [][(cleanup'.threw /\ ~cleanup.threw) =>
              /\ cleanup'.pc \in {"rmRead", "done"}
              /\ UNCHANGED << storeVars, popup, dom, THEMES_CONFIG,
                              DOWNLOADED_THEMES, calls, lastFetch >>]_vars

\* the cleanup of this popup has run to its end after one of its store
\* reads threw, and meanwhile the list was refetched and a download made
\* aa the active theme
C27_Witness ==
    /\ cleanup.pc = "done"
    /\ cleanup.threw
    /\ dom.gen = 2
    /\ theme = "aa"
    /\ \E i \in CallIds : calls[i].pc = "returned" /\ calls[i].result

(***************************************************************************)
(* Properties of the validation of a fetched text.                         *)
(***************************************************************************)
\* C28: the text of a fetch is accepted (its store write is issued) if and
\* only if the response has a success status and the text has 10 characters
\* or more after trimming; otherwise the category fails, and a text of 0 to
\* 9 characters after trimming is never written to the store.
C28_AcceptedIffTenAfterTrim ==
    /\ [][\A i \in CallIds, c \in Cats :
               (calls[i].st[c] = "fetch" /\ calls'[i].st[c] # "fetch") =>
                   LET r == calls'[i].resp[c]
                   IN  /\ calls'[i].st[c] \in {"set", "failed"}
                       /\ calls'[i].st[c] = "set"
                              <=> (r.kind = "http" /\ r.ok /\ TrimLength(r.body) >= 10)]_vars
    /\ [](\A k \in DOMAIN assets : assets[k] # NoCss => TrimLength(assets[k]) >= 10)
    /\ [](\A i \in CallIds, c \in Cats :
             calls[i].wrote[c] => TrimLength(calls[i].resp[c].body) >= 10)

\* a call has fetched a home text of 10 characters or more of which 9 are
\* left after trimming, which was rejected and is not in the store, and has
\* stored an assignments text of exactly 10 characters after trimming
C28_Witness ==
    \E i \in CallIds :
        /\ calls[i].resp["home"].ok
        /\ CssLength(calls[i].resp["home"].body) >= 10
        /\ TrimLength(calls[i].resp["home"].body) = 9
        /\ calls[i].st["home"] = "failed"
        /\ assets[<<"aa", "home">>] = NoCss
        /\ calls[i].wrote["assignments"]
        /\ TrimLength(assets[<<"aa", "assignments">>]) = 10
        /\ CssLength(assets[<<"aa", "assignments">>]) = 12

(***************************************************************************)
(* Properties of downloads that race the eviction.                         *)
(***************************************************************************)
\* C29: in every state of every interleaving of downloadTheme calls with
\* cleanupUnusedThemes and its removeTheme calls, a theme whose key
\* `${themeId}_downloaded` is set has every required category asset stored
\* and non-empty.
C29_StampImpliesAssets ==
    \A t \in ThemeIds :
        stamps[t] # 0 =>
            \A c \in Cats : /\ assets[<<t, c>>] # NoCss
                            /\ CssLength(assets[<<t, c>>]) > 0

(***************************************************************************)
(* Properties of applyTheme calls that overlap.                            *)
(***************************************************************************)
\* C30: on a recognised page on which every applyTheme call was made, once
\* every call has settled and no change notification is pending, each style
\* element of the document is tagged with the stored active theme and, if
\* the store has that theme's asset of the page type, holds it: the style
\* of a call made for an earlier value of `theme` is not left in the
\* document.
C30_StaleAppliesDoNotWin ==
    LET pageType == getPageType(page.url)
    IN  (/\ PageSettled
         /\ pageType # NoValue
         /\ \A i \in ApplyIds : page.applies[i].key[2] = pageType)
        => \A k \in 1..Len(page.styles) :
               /\ page.styles[k].themeName = ActiveOr(theme)
               /\ ~CacheMiss(assets, <<theme, pageType>>)
                      => page.styles[k].css = assets[<<theme, pageType>>]

(***************************************************************************)
(* Properties of the active theme set through the popup.                   *)
(***************************************************************************)
\* C31: the stored active theme, when it is a theme id (in the eviction
\* specification: the downloaded theme earlier popups left, or one written
\* by a slider click of this popup), is downloaded: all its required assets
\* are in the store.  In particular the click on a slider that was rendered
\* before the eviction removed its theme does not make that theme active.
C31_ActiveThemeIsDownloaded ==
    theme \in ThemeIds => isThemeDownloaded(assets, theme)

(***************************************************************************)
(* Frame of removeTheme.                                                   *)
(***************************************************************************)
\* C32: removeTheme(T), when its read of `theme` finds T, returns false and
\* leaves the store and DOWNLOADED_THEMES as they are, and issues no remove;
\* when the read finds another value it issues one bulk remove and changes
\* nothing before it, and the remove, once applied, unsets exactly T-home,
\* T-assignments, T-extras and T_downloaded, deletes T from
\* DOWNLOADED_THEMES and makes the call return true, every other key of the
\* store (`theme`, the catalog, the assets and Download Records of the
\* other themes) being left as it is.
C32_RemoveThemeFrame ==
    /\ [][(cleanup.pc = "rmRead" /\ cleanup' # cleanup /\ theme = cleanup.victim) =>
              /\ cleanup'.returned = "false"
              /\ cleanup'.pc # "rmApply"
              /\ UNCHANGED << storeVars, DOWNLOADED_THEMES >>]_vars
    /\ [][(cleanup.pc = "rmRead" /\ cleanup'.pc = "rmApply") =>
              /\ theme # cleanup.victim
              /\ cleanup'.victim = cleanup.victim
              /\ UNCHANGED << storeVars, DOWNLOADED_THEMES >>]_vars
    /\ [][removeThemeApplies(TRUE) =>
              /\ \A k \in DOMAIN assets :
                     assets'[k] = IF k[1] = cleanup.victim THEN NoCss ELSE assets[k]
              /\ \A t \in ThemeIds :
                     stamps'[t] = IF t = cleanup.victim THEN 0 ELSE stamps[t]
              /\ UNCHANGED << theme, themes_config, themes_config_updated >>
              /\ SeqRange(DOWNLOADED_THEMES') = SeqRange(DOWNLOADED_THEMES) \ {cleanup.victim}
              /\ cleanup'.returned = "true"]_vars

\* the cleanup has ended without a store error: removeTheme(bb) has removed
\* the four keys of bb, and removeTheme(aa), called for the theme a download
\* has just made active, has returned false and left aa in the store
C32_Witness ==
    /\ cleanup.pc = "done"
    /\ ~cleanup.threw
    /\ cleanup.returned = "false"
    /\ NoKeyStored("bb")
    /\ "bb" \notin SeqRange(DOWNLOADED_THEMES)
    /\ theme = "aa"
    /\ "aa" \notin cleanup.keep
    /\ "aa" \in SeqRange(DOWNLOADED_THEMES)
    /\ AllKeysStored("aa")
    /\ AllKeysStored("cc")

(***************************************************************************)
(* Properties of the eviction of themes without a Download Record.         *)
(***************************************************************************)
\* C33: the themes cleanupUnusedThemes chooses to keep besides the active
\* one are at most 2 and each has its key `${themeId}_downloaded` set; when
\* it has completed without a store error, every theme other than the
\* active one that has no Download Record has no key left in the store and
\* is not in DOWNLOADED_THEMES, however few themes were kept.
C33_UnstampedThemesRemoved ==
    /\ [][(/\ cleanup.pc \in {"scheduled", "scan"}
           /\ cleanup'.pc \in {"rmRead", "done"}
           /\ ~cleanup'.threw)
              => /\ \A t \in cleanup'.keep \ {theme} : t \in ThemeIds /\ stamps[t] # 0
                 /\ Cardinality(cleanup'.keep \ {theme}) <= KeepRecent]_vars
    /\ []((cleanup.pc = "done" /\ ~cleanup.threw)
             => \A t \in ThemeIds \ {cleanup.theme} :
                    stamps[t] = 0
                        => /\ NoKeyStored(t)
                           /\ t \notin SeqRange(DOWNLOADED_THEMES))

\* aa and bb were downloaded, aa without a Download Record, and the default
\* theme is active: the cleanup has kept bb alone and removed aa
C33_Witness ==
    /\ cleanup.pc = "done"
    /\ ~cleanup.threw
    /\ cleanup.theme = "default"
    /\ cleanup.keep = {"default", "bb"}
    /\ dom.kind["aa"] = "slider"
    /\ cleanup.returned = "true"
    /\ NoKeyStored("aa")
    /\ DOWNLOADED_THEMES = <<"bb">>
    /\ AllKeysStored("bb")

(***************************************************************************)
(* Properties of the download button's click handler.                      *)
(***************************************************************************)
\* C34: when the downloadTheme(T) call of a download button's click handler
\* returns true, the handler makes T the stored active theme and leaves the
\* toggle of T checked and no other; when the call returns false, the
\* handler leaves `theme` and the checked toggles as they are and the
\* download button of T is enabled.
C34_ButtonHandlerOutcome ==
    [][\A i \in CallIds :
           (calls[i].btn /\ calls[i].pc # "returned" /\ calls'[i].pc = "returned") =>
               IF calls'[i].result
               THEN /\ theme' = calls[i].themeId
                    /\ dom'.checked = {calls[i].themeId}
               ELSE /\ theme' = theme
                    /\ dom'.checked = dom.checked
                    /\ calls[i].themeId \notin dom'.disabled]_vars

(***************************************************************************)
(* Termination of downloadTheme.                                           *)
(***************************************************************************)
\* C35: a downloadTheme call is at one of its awaits or has returned a
\* boolean, it never ends by raising; and, every started fetch and store
\* write settling in the end, every call that was made returns, whatever
\* fetches are rejected or answered with a failure status or a short body
\* and whatever store writes throw.
C35_DownloadTerminates ==
    /\ [](\A i \in CallIds :
             /\ calls[i].pc \in {"awaitAll", "stamp", "returned"}
             /\ calls[i].result \in BOOLEAN)
    /\ \A n \in 1..MaxTrips :
           (Len(calls) >= n) ~> (Len(calls) >= n /\ calls[n].pc = "returned")

\* a call of bb has returned false with its three promises settled: the
\* fetch of extras was rejected, the home body has 9 characters after
\* trimming, and the store write of the assignments asset threw
C35_Witness ==
    \E i \in CallIds :
        /\ calls[i].themeId = "bb"
        /\ calls[i].pc = "returned" /\ ~calls[i].result
        /\ calls[i].resp["extras"] = NetworkError
        /\ calls[i].resp["home"].ok /\ TrimLength(calls[i].resp["home"].body) = 9
        /\ FetchSucceeded(calls[i].resp["assignments"])
        /\ calls[i].st["assignments"] = "failed"
        /\ WriteThrew(i)

(***************************************************************************)
(* Properties of the listener on changes of other keys.                    *)
(***************************************************************************)
\* C36: the delivery of a change notification that does not carry the key
\* `theme` makes no applyTheme call and leaves the style elements of the
\* document as they are; and a step that writes or removes an asset or a
\* Download Record or writes the catalog without writing `theme` sends the
\* page only such a notification and leaves its applyTheme calls and its
\* style elements as they are.
C36_OtherChangesDoNotRestyle ==
    /\ [][(/\ page.queue # << >>
           /\ page'.queue = Tail(page.queue)
           /\ ~Head(page.queue).theme)
              => /\ page'.applies = page.applies
                 /\ page'.styles = page.styles]_vars
    /\ [][(/\ theme' = theme
           /\ \/ assets' # assets
              \/ stamps' # stamps
              \/ themes_config' # themes_config)
              => /\ page'.applies = page.applies
                 /\ page'.styles = page.styles
                 /\ page'.sent = page.sent
                 /\ page.open => page'.queue = Append(page.queue, OtherChange)]_vars

\* the page was styled with ee at its load; since then the catalog was
\* refreshed, the three assets of aa were written and bb was evicted, every
\* notification was delivered, and the document still has the one style
\* element of the load and no other applyTheme call was made
C36_Witness ==
    /\ page.open
    /\ page.queue = << >>
    /\ page.sent = 0
    /\ Len(page.applies) = 1
    /\ page.applies[1].from = "load"
    /\ page.styles = <<[css |-> assets[<<"ee", "home">>], themeName |-> "ee", by |-> 1]>>
    /\ themes_config_updated = 7
    /\ Len(calls) = 1
    /\ calls[1].pc = "stamp"
    /\ \A c \in Cats : calls[1].wrote[c]
    /\ cleanup.pc = "done"
    /\ NoKeyStored("bb")

(***************************************************************************)
(* Properties of the bulk refetch variant.                                 *)
(***************************************************************************)
\* every fetchAndStoreCSS call of the run has returned true
AllFetched(rf) == \A k \in rf.keys : rf.st[k] = "true"

\* C37: in the bulk refetch variant,
\*  - a fetchAndStoreCSS call whose fetch is rejected, answered with a
\*    failure status or with a text of less than 10 characters after
\*    trimming returns false and writes no key, then or later in the run;
\*  - the asset key is written by the call whose response was accepted, in
\*    a step that leaves the `_updated` keys alone, and `${key}_updated` is
\*    written only after it: a key with `_updated` set has its asset set;
\*  - fetchAllThemes leaves `await Promise.all` only when every call of the
\*    run has returned; it then issues the write of last_themes_update if
\*    every call returned true and sets the timer without it otherwise;
\*    last_themes_update is written by that write alone;
\*  - the refetch button is disabled while a run is under way, and a
\*    disabled button is enabled again in the end, whatever the outcome.
C37_BulkRefetch ==
    /\ [][\A k \in ThemeIds \X Cats :
              /\ (refetch.st[k] = "fetch" /\ refetch'.st[k] = "false")
                     => /\ ~ResponseAccepted(refetch'.resp[k])
                        /\ UNCHANGED << assets, updated, last_themes_update >>
              /\ (refetch.st[k] = "fetch" /\ refetch'.st[k] # "fetch")
                     => (refetch'.st[k] = "set" <=> ResponseAccepted(refetch'.resp[k]))
              /\ (refetch.st[k] = "false" /\ refetch'.runs = refetch.runs)
                     => /\ refetch'.st[k] = "false"
                        /\ assets'[k] = assets[k]
                        /\ updated'[k] = updated[k]]_vars
    /\ [][\A k \in ThemeIds \X Cats :
              /\ assets'[k] # assets[k]
                     => /\ refetch.st[k] = "set"
                        /\ ResponseAccepted(refetch.resp[k])
                        /\ assets'[k] = refetch.resp[k].body
                        /\ updated' = updated
              /\ updated'[k] # updated[k]
                     => /\ refetch.st[k] = "mark"
                        /\ assets[k] = refetch.resp[k].body
                        /\ assets' = assets]_vars
    /\ [](\A k \in ThemeIds \X Cats : updated[k] # 0 => assets[k] # NoCss)
    /\ [](refetch.pc = "awaitAll"
              => \E k \in refetch.keys : refetch.st[k] \notin {"true", "false"})
    /\ [][(refetch'.pc = "last" /\ refetch.pc # "last") => AllFetched(refetch')]_vars
    /\ [][(refetch'.pc = "timer" /\ refetch.pc \notin {"last", "timer"})
              => /\ \A k \in refetch'.keys : refetch'.st[k] \in {"true", "false"}
                 /\ ~AllFetched(refetch')
                 /\ refetch'.last = "none"]_vars
    /\ [][last_themes_update' # last_themes_update
              => /\ refetch.pc = "last"
                 /\ AllFetched(refetch)
                 /\ last_themes_update' = clock]_vars
    /\ []((refetch.runs > 0 /\ refetch.pc \in {"timer", "idle"})
              => /\ refetch.last # "none" <=> AllFetched(refetch)
                 /\ refetch.last = "applied" => last_themes_update = clock)
    /\ [](refetch.disabled <=> refetch.pc # "idle")
    /\ refetch.disabled ~> ~refetch.disabled

\* a run has ended and the button is enabled again: the home text of 9
\* characters after trimming was rejected and no key of it was written, the
\* assignments asset and its `_updated` key were written, the extras asset
\* was written and the write of its `_updated` key threw, and
\* last_themes_update was not written
C37_Witness ==
    /\ refetch.runs = 1
    /\ refetch.pc = "idle"
    /\ ~refetch.disabled
    /\ refetch.keys = {"aa"} \X Cats
    /\ refetch.resp[<<"aa", "home">>].ok
    /\ TrimLength(refetch.resp[<<"aa", "home">>].body) = 9
    /\ refetch.st[<<"aa", "home">>] = "false"
    /\ assets[<<"aa", "home">>] = NoCss
    /\ updated[<<"aa", "home">>] = 0
    /\ refetch.st[<<"aa", "assignments">>] = "true"
    /\ assets[<<"aa", "assignments">>] = Css(2, 10, 1)
    /\ updated[<<"aa", "assignments">>] # 0
    /\ refetch.st[<<"aa", "extras">>] = "false"
    /\ assets[<<"aa", "extras">>] = Css(0, 12, 1)
    /\ updated[<<"aa", "extras">>] = 0
    /\ refetch.last = "none"
    /\ last_themes_update = 0

\* a run in which every file was fetched and stored has written
\* last_themes_update and the button is enabled again
C37_WitnessAllUpdated ==
    /\ refetch.runs = 1
    /\ refetch.pc = "idle"
    /\ ~refetch.disabled
    /\ refetch.keys = {"aa"} \X Cats
    /\ AllFetched(refetch)
    /\ \A k \in refetch.keys : assets[k] # NoCss /\ updated[k] = clock
    /\ refetch.last = "applied"
    /\ last_themes_update = clock

====
